---- MODULE Spec2Model ----
(***************************************************************************)
(* Model of the LinkedIn automation tool's persistent core: the SQLite     *)
(* store (profiles, connection_requests, messages, rate_limits), the       *)
(* RateLimiter, and the pipeline of main(): search, immediate connect,     *)
(* backlog connect, status check, reply check, follow-up messages.         *)
(*                                                                         *)
(* Time is counted in days (`now`); a date key of rate_limits is a day.    *)
(* The browser page (rod) is the environment: what it shows is chosen      *)
(* nondeterministically at every step that asks it.                        *)
(***************************************************************************)
EXTENDS Integers, Sequences, FiniteSets, TLC

(***************************************************************************)
(* Bounds of the model and program constants.                              *)
(***************************************************************************)
\* Profile ids the search page, the connections page and the inbox can show.
Contacts == {"a", "b"}

\* Template ids MESSAGE_TEMPLATE can name (default msg_introduction).
Templates == {"msg_introduction", "msg_followup"}

\* Ceilings of RateLimitConfig; the program reads them from the environment.
MaxConnectionsPerDay == 2
MaxMessagesPerDay == 2
MaxSearchesPerDay == 2

\* daysBack / DuplicateDays as passed by main() and ProcessDailyFollowUps.
DaysBack == 30

\* Clock jumps the model takes: to the look-back window's edge, and past it.
Jumps == {DaysBack, DaysBack + 1}
MaxTicks == 1

\* Caps on the rows of the two tables, to keep the state space finite.
MaxRequestRows == 3
MaxMessageRows == 3

\* Cap on the rows of each table where the repository is called directly.
MaxStoreRows == 2

\* Cap on the actions of one kind the model follows within one day.
MaxActions == 3

\* maxMessages / maxConnections defaults of one run.
MaxMessagesPerRun == 3
MaxConnectionsPerRun == 5
ImmediateLimit == 3

TaskConnection == "connection"
TaskMessage == "message"
TaskSearch == "search"
TaskTypes == {TaskConnection, TaskMessage, TaskSearch}
\* The kinds that reach another person.
OutreachTypes == {TaskConnection, TaskMessage}

Statuses == {"pending", "accepted", "rejected", "withdrawn"}

VARIABLES
    now,                  \* time.Now(), in days
    ticks,                \* clock jumps taken so far
    profiles,             \* table profiles: id -> [visited_at, created_at]
    connection_requests,  \* table connection_requests, in rowid order
    messages,             \* table messages, in rowid order
    rate_limits,          \* table rate_limits: date -> counts
    pc,                   \* position of main()
    queue,                \* the list the current loop ranges over (rest of it)
    count,                \* immediate flow: requests sent in this run
    templateID,           \* MESSAGE_TEMPLATE of the messaging stage
    current,              \* contact whose action succeeded and awaits RecordAction
    stats,                \* ConnectionStats of SendConnectionRequests
    searchStats,          \* SearchStats of the search of this run
    recorded,             \* history: successful RecordAction calls today, per kind
    performed,            \* history: requests and messages sent today
    repliedSeen,          \* history: ids UpdateConnectionReplyStatus(id, true) was called for
    ret,                  \* result of the last repository / limiter call
    clock,                \* time.Now() within the day, in clock units
    lastActionTime,       \* RateLimiter.lastActionTime
    ppc,                  \* the limiter's caller: ready or acted, and the last kind
    lastStart,            \* history: start time of the last outreach action
    lastDone,             \* history: time the last RecordAction returned
    callers,              \* callers of the quota store: position and locals of each
    attempted,            \* history: contacts handed to the Actuator in this stage of this run
    tmplDef,              \* the MessageTemplate given to the renderer: Body, MaxLength
    tmplVars,             \* the TemplateVariables given to the renderer
    result,               \* what the renderer returned: the call, the text, the error
    env,                  \* the process environment: the schedule settings
    wall,                 \* time.Now() on the wall clock, in ticks since a Monday 00:00
    sched,                \* what the scheduler returned: the call and its results
    stateFile,            \* data/state.json: the saved AppState, if the file exists
    session,              \* main's session check and login: its position and sessionValid
    savedAt,              \* history: when the last run logged in and saved the state, or -1
    probe                 \* a link of a page: its href and what the URL helpers returned for it

vars == <<now, ticks, profiles, connection_requests, messages, rate_limits,
          pc, queue, count, templateID, current, stats, searchStats,
          recorded, performed, repliedSeen, ret,
          clock, lastActionTime, ppc, lastStart, lastDone, callers,
          attempted, tmplDef, tmplVars, result, env, wall, sched,
          stateFile, session, savedAt, probe>>

storeVars == <<profiles, connection_requests, messages, rate_limits>>
runVars == <<pc, queue, count, templateID, current>>
tallyVars == <<stats, searchStats>>
histVars == <<recorded, performed, repliedSeen>>
paceVars == <<clock, lastActionTime, ppc, lastStart, lastDone>>
quotaVars == <<callers>>
attemptVars == <<attempted>>
renderVars == <<tmplDef, tmplVars, result>>
hostVars == <<env, wall, sched>>
sessionVars == <<stateFile, session, savedAt>>
urlVars == <<probe>>

Min(x, y) == IF x <= y THEN x ELSE y

Range(s) == {s[i] : i \in DOMAIN s}

(***************************************************************************)
(* storage.Database: profiles                                              *)
(***************************************************************************)
\* INSERT ... ON CONFLICT(id) DO UPDATE SET ..., visited_at = excluded.visited_at
\* An upsert that replaces the whole row, first-seen time included.
SaveProfileReplace(ps, id, visitedAt, createdAt) ==
    [p \in DOMAIN ps \cup {id} |->
        IF p = id THEN [visited_at |-> visitedAt, created_at |-> createdAt]
                  ELSE ps[p]]

SaveProfile(ps, id, visitedAt, createdAt) ==
    IF id \in DOMAIN ps
    THEN [ps EXCEPT ![id].visited_at = visitedAt]
    ELSE [p \in DOMAIN ps \cup {id} |->
            IF p = id THEN [visited_at |-> visitedAt, created_at |-> createdAt]
                      ELSE ps[p]]

\* COUNT(*) > 0 WHERE id = ? AND visited_at > now - daysSince
IsDuplicateProfile(ps, id, daysSince, t) ==
    id \in DOMAIN ps /\ ps[id].visited_at > t - daysSince

(***************************************************************************)
(* storage.Database: connection_requests                                   *)
(***************************************************************************)
\* A row as SendConnectionRequest builds it: status 'pending', has_replied 0.
NewRequest(id, sentAt) ==
    [profile_id |-> id, sent_at |-> sentAt, status |-> "pending", has_replied |-> FALSE]

\* Plain INSERT: no lookup of an existing row for the profile.
SaveConnectionRequest(rows, req) == Append(rows, req)

\* The update without its status guard: WHERE profile_id = ? alone.
UpdateConnectionStatusUnguarded(rows, id, status) ==
    [i \in DOMAIN rows |->
        IF rows[i].profile_id = id
        THEN [rows[i] EXCEPT !.status = status]
        ELSE rows[i]]

\* The update confined to the oldest pending row of the profile.
UpdateConnectionStatusFirstRow(rows, id, status) ==
    LET P == {i \in DOMAIN rows : rows[i].profile_id = id /\ rows[i].status = "pending"}
    IN [i \in DOMAIN rows |->
        IF i \in P /\ \A j \in P : i <= j
        THEN [rows[i] EXCEPT !.status = status]
        ELSE rows[i]]

\* UPDATE ... SET status = ? WHERE profile_id = ? AND status = 'pending'
UpdateConnectionStatus(rows, id, status) ==
    [i \in DOMAIN rows |->
        IF rows[i].profile_id = id /\ rows[i].status = "pending"
        THEN [rows[i] EXCEPT !.status = status]
        ELSE rows[i]]

\* SELECT COUNT(*) FROM connection_requests WHERE profile_id = ?
HasSentConnectionRequest(rows, id) ==
    \E i \in DOMAIN rows : rows[i].profile_id = id

\* UPDATE ... SET has_replied = ? WHERE profile_id = ?
UpdateConnectionReplyStatus(rows, id, hasReplied) ==
    [i \in DOMAIN rows |->
        IF rows[i].profile_id = id
        THEN [rows[i] EXCEPT !.has_replied = hasReplied]
        ELSE rows[i]]

(***************************************************************************)
(* storage.Database: messages                                              *)
(***************************************************************************)
NewMessage(id, template, sentAt) ==
    [connection_id |-> id, template_name |-> template, sent_at |-> sentAt]

\* Plain INSERT: no lookup of an existing (connection_id, template_name).
SaveMessage(msgs, msg) == Append(msgs, msg)

\* SELECT COUNT(*) FROM messages WHERE connection_id = ? AND template_name = ?
HasSentMessage(msgs, id, template) ==
    \E i \in DOMAIN msgs :
        msgs[i].connection_id = id /\ msgs[i].template_name = template

(***************************************************************************)
(* storage.Database: rate_limits                                           *)
(***************************************************************************)
ZeroCounts == [connection_count |-> 0, message_count |-> 0, search_count |-> 0]

\* The row GetTodayRateLimit returns: the stored one, or the fresh zero row.
GetTodayRateLimit(rl, today) ==
    IF today \in DOMAIN rl THEN rl[today] ELSE ZeroCounts

\* The table after GetTodayRateLimit: sql.ErrNoRows inserts a zero row for today.
GetTodayRateLimitStore(rl, today) ==
    IF today \in DOMAIN rl
    THEN rl
    ELSE [d \in DOMAIN rl \cup {today} |-> IF d = today THEN ZeroCounts ELSE rl[d]]

\* The column of a task type.
CountOf(row, taskType) ==
    CASE taskType = TaskConnection -> row.connection_count
      [] taskType = TaskMessage -> row.message_count
      [] taskType = TaskSearch -> row.search_count

\* A row with every column raised by one.
BumpEvery(row, taskType) ==
    [connection_count |-> row.connection_count + 1,
     message_count |-> row.message_count + 1,
     search_count |-> row.search_count + 1]

\* A row with one column raised by one.
Bump(row, taskType) ==
    CASE taskType = TaskConnection ->
            [row EXCEPT !.connection_count = row.connection_count + 1]
      [] taskType = TaskMessage ->
            [row EXCEPT !.message_count = row.message_count + 1]
      [] taskType = TaskSearch ->
            [row EXCEPT !.search_count = row.search_count + 1]

\* IncrementConnectionCount / IncrementMessageCount / IncrementSearchCount:
\* INSERT (today, 1 for the kind, 0 for the others) ON CONFLICT(date) DO UPDATE
\* SET <kind>_count = <kind>_count + 1.
\* An increment that replaces the day's row instead of adding to it.
IncrementCountReplace(rl, today, taskType) ==
    [d \in DOMAIN rl \cup {today} |->
        IF d = today THEN Bump(ZeroCounts, taskType) ELSE rl[d]]

\* An increment by UPDATE alone, which does nothing on a day without a row.
IncrementCountIfPresent(rl, today, taskType) ==
    IF today \in DOMAIN rl
    THEN [rl EXCEPT ![today] = Bump(@, taskType)]
    ELSE rl

IncrementCount(rl, today, taskType) ==
    [d \in DOMAIN rl \cup {today} |->
        IF d = today
        THEN Bump(IF today \in DOMAIN rl THEN rl[today] ELSE ZeroCounts, taskType)
        ELSE rl[d]]

(***************************************************************************)
(* storage.Database: the two selections                                    *)
(***************************************************************************)
\* All enumerations of a finite set.
Perms(S) ==
    {q \in [1..Cardinality(S) -> S] :
        \A i, j \in 1..Cardinality(S) : i # j => q[i] # q[j]}

\* LIMIT n
Limit(q, n) == SubSeq(q, 1, Min(n, Len(q)))

\* Ids with a request sent within daysBack.
RecentlyRequested(rows, daysBack, t) ==
    {rows[i].profile_id : i \in {j \in DOMAIN rows : rows[j].sent_at >= t - daysBack}}

\* The WHERE clause of GetRecentProfiles.
RecentUncontacted(ps, rows, daysBack, t) ==
    {p \in DOMAIN ps : ps[p].visited_at >= t - daysBack}
        \ RecentlyRequested(rows, daysBack, t)

\* GetRecentProfiles: the possible results (ORDER BY visited_at DESC LIMIT ?;
\* rows with equal visited_at come in an order SQLite does not fix).
GetRecentProfiles(ps, rows, limit, daysBack, t) ==
    {Limit(q, limit) : q \in
        {r \in Perms(RecentUncontacted(ps, rows, daysBack, t)) :
            \A i, j \in DOMAIN r :
                i < j => ps[r[i]].visited_at >= ps[r[j]].visited_at}}

\* The join without cr.status = 'accepted'.
AnyStatusRows(rows, id, daysBack, t) ==
    {i \in DOMAIN rows :
        /\ rows[i].profile_id = id
        /\ ~rows[i].has_replied
        /\ rows[i].sent_at >= t - daysBack}

\* Rows of the join that pass cr.status = 'accepted', has_replied unset and
\* the sent_at window.
AcceptedRows(rows, id, daysBack, t) ==
    {i \in DOMAIN rows :
        /\ rows[i].profile_id = id
        /\ rows[i].status = "accepted"
        /\ ~rows[i].has_replied
        /\ rows[i].sent_at >= t - daysBack}

\* Ids with a message sent within daysBack.
RecentlyMessaged(msgs, daysBack, t) ==
    {msgs[i].connection_id : i \in {j \in DOMAIN msgs : msgs[j].sent_at >= t - daysBack}}

\* The WHERE clause of GetAcceptedConnectionProfiles.
AcceptedUnmessaged(ps, rows, msgs, daysBack, t) ==
    {p \in DOMAIN ps : AcceptedRows(rows, p, daysBack, t) # {}}
        \ RecentlyMessaged(msgs, daysBack, t)

\* GetAcceptedConnectionProfiles: the possible results (SELECT DISTINCT p.*
\* ORDER BY cr.sent_at DESC LIMIT ?; a profile with several joined rows is
\* placed by one of them).
GetAcceptedConnectionProfiles(ps, rows, msgs, limit, daysBack, t) ==
    LET S == AcceptedUnmessaged(ps, rows, msgs, daysBack, t)
    IN {Limit(q, limit) : q \in
        {r \in Perms(S) :
            \E k \in [S -> DOMAIN rows] :
                /\ \A p \in S : k[p] \in AcceptedRows(rows, p, daysBack, t)
                /\ \A i, j \in DOMAIN r :
                    i < j => rows[k[r[i]]].sent_at >= rows[k[r[j]]].sent_at}}

\* GetPendingConnections: WHERE status = 'pending' ORDER BY sent_at DESC.
GetPendingConnections(rows) ==
    LET P == {i \in DOMAIN rows : rows[i].status = "pending"}
    IN {[n \in DOMAIN q |-> rows[q[n]]] : q \in
        {r \in Perms(P) :
            \A i, j \in DOMAIN r : i < j => rows[r[i]].sent_at >= rows[r[j]].sent_at}}

(***************************************************************************)
(* automation.RateLimiter                                                  *)
(***************************************************************************)
\* rl.config: the ceiling of a task type.
Ceiling(taskType) ==
    CASE taskType = TaskConnection -> MaxConnectionsPerDay
      [] taskType = TaskMessage -> MaxMessagesPerDay
      [] taskType = TaskSearch -> MaxSearchesPerDay

\* getNextMidnight: 00:00:00 local time of the day after today.
getNextMidnight(today) == [day |-> today + 1, clock |-> 0]

\* The RateLimitError value CheckDailyLimit builds when it refuses.
RateLimitError(rl, taskType, today) ==
    [TaskType |-> taskType,
     Current |-> CountOf(GetTodayRateLimit(rl, today), taskType),
     Limit |-> Ceiling(taskType),
     ResetTime |-> getNextMidnight(today)]

\* A check that reads the connection counter whatever the kind asked for.
CheckDailyLimitConnectionOnly(rl, taskType, today) ==
    IF CountOf(GetTodayRateLimit(rl, today), TaskConnection) >= Ceiling(taskType)
    THEN "RateLimitError"
    ELSE "nil"

\* The check with count > ceiling in place of count >= ceiling.
CheckDailyLimitAbove(rl, taskType, today) ==
    IF CountOf(GetTodayRateLimit(rl, today), taskType) > Ceiling(taskType)
    THEN "RateLimitError"
    ELSE "nil"

\* CheckDailyLimit: "RateLimitError" when today's count >= the ceiling, else "nil".
CheckDailyLimit(rl, taskType, today) ==
    IF CountOf(GetTodayRateLimit(rl, today), taskType) >= Ceiling(taskType)
    THEN "RateLimitError"
    ELSE "nil"

\* RecordAction: (cooldown, then) the kind's increment; a failed Exec leaves
\* the table as it was and is returned as an error.
\* A RecordAction that waits but never increments the day's counter.
RecordActionNoIncrement(rl, taskType, today, dbOk) == rl

RecordAction(rl, taskType, today, dbOk) ==
    IF dbOk THEN IncrementCount(rl, today, taskType) ELSE rl

(***************************************************************************)
(* automation: the steps that touch the store                              *)
(***************************************************************************)
\* What the profile page lets SendConnectionRequest do.
ConnectOutcomes ==
    {"sent", "already connected", "connection pending",
     "connect button not found", "checkpoint", "error"}

\* SendConnectionRequest: the row is saved only after the Send click, and a
\* failed save is logged and not returned.
SendConnectionRequest(rows, id, t, outcome, dbOk) ==
    IF outcome = "sent" /\ dbOk
    THEN SaveConnectionRequest(rows, NewRequest(id, t))
    ELSE rows

\* ConnectionStats before the first request.
\* The five path fragments IsLinkedInCheckpoint compares the page URL with.
CheckpointPatterns ==
    {<<"/", "c", "h", "e", "c", "k", "p", "o", "i", "n", "t", "/">>,
     <<"/", "c", "h", "a", "l", "l", "e", "n", "g", "e", "/">>,
     <<"/", "u", "a", "s", "/", "l", "o", "g", "i", "n", "-", "v", "e", "r", "i", "f", "i", "c", "a", "t", "i", "o", "n">>,
     <<"/", "u", "a", "s", "/", "c", "h", "a", "l", "l", "e", "n", "g", "e">>,
     <<"/", "c", "a", "p", "/">>}

\* Page URLs the browser may report after a navigation.
PageURLs ==
    {<<"/", "c", "h", "e", "c", "k", "p", "o", "i", "n", "t", "/">>,
     <<"h", "t", "t", "p", "s", ":", "/", "/", "w", "w", "w", ".", "l", "i", "n", "k", "e", "d", "i", "n", ".", "c", "o", "m", "/", "c", "h", "e", "c", "k", "p", "o", "i", "n", "t", "/", "c", "h", "a", "l", "l", "e", "n", "g", "e", "/">>,
     <<"h", "t", "t", "p", "s", ":", "/", "/", "w", "w", "w", ".", "l", "i", "n", "k", "e", "d", "i", "n", ".", "c", "o", "m", "/", "f", "e", "e", "d", "/">>}

\* utils.ContainsString(slice, str) : some element of the slice equals str.
ContainsString(slice, str) == \E i \in DOMAIN slice : slice[i] = str

\* utils.IsLinkedInCheckpoint looks each pattern up in the one-element
\* slice holding the URL, which is an equality test on the whole URL.
IsLinkedInCheckpoint(url) ==
    \E pattern \in CheckpointPatterns :
        Len(url) > 0 /\ ContainsString(<<url>>, pattern)

ZeroStats ==
    [totalAttempted |-> 0, successful |-> 0, failed |-> 0,
     alreadyConnected |-> 0, pending |-> 0, errors |-> 0]

\* SendConnectionRequests, the tally of one result of SendConnectionRequest:
\* the texts "already connected" and "connection pending" have their own
\* counters, every other error counts as failed and is kept in Errors.
TallyDropsPending(st, outcome) ==
    CASE outcome = "sent" -> [st EXCEPT !.successful = @ + 1]
      [] outcome = "already connected" -> [st EXCEPT !.alreadyConnected = @ + 1]
      [] outcome = "connection pending" -> st
      [] OTHER -> [st EXCEPT !.failed = @ + 1, !.errors = @ + 1]

Tally(st, outcome) ==
    CASE outcome = "sent" -> [st EXCEPT !.successful = @ + 1]
      [] outcome = "already connected" -> [st EXCEPT !.alreadyConnected = @ + 1]
      [] outcome = "connection pending" -> [st EXCEPT !.pending = @ + 1]
      [] OTHER -> [st EXCEPT !.failed = @ + 1, !.errors = @ + 1]

\* SearchStats before the page is read.
ZeroSearchStats ==
    [totalFound |-> 0, newProfiles |-> 0, duplicates |-> 0, errorCount |-> 0]

\* SendMessage: the row is saved only after the Send click, and a failed
\* save is logged and not returned.
SendMessage(msgs, id, template, t, outcome, dbOk) ==
    IF outcome = "sent" /\ dbOk
    THEN SaveMessage(msgs, NewMessage(id, template, t))
    ELSE msgs

\* The result loop of SearchPeople over one page of results.
RECURSIVE SearchLoop(_, _, _, _, _)
\* A loop that saves every candidate, duplicates too.
SearchLoopSavesAll(acc, results, saveOk, daysBack, t) ==
    [acc EXCEPT
        !.profiles = [p \in DOMAIN acc.profiles \cup Range(results) |->
                         IF p \in Range(results)
                         THEN SaveProfile(acc.profiles, p, t, t)[p]
                         ELSE acc.profiles[p]],
        !.duplicates = Cardinality({i \in DOMAIN results :
                            IsDuplicateProfile(acc.profiles, results[i], daysBack, t)}),
        !.newProfiles = Len(results) - Cardinality({i \in DOMAIN results :
                            IsDuplicateProfile(acc.profiles, results[i], daysBack, t)}),
        !.allResults = results]

SearchLoop(acc, results, saveOk, daysBack, t) ==
    IF results = <<>>
    THEN acc
    ELSE LET r == Head(results)
             rest == Tail(results)
         IN IF IsDuplicateProfile(acc.profiles, r, daysBack, t)
            THEN SearchLoop([acc EXCEPT !.duplicates = @ + 1],
                            rest, saveOk, daysBack, t)
            ELSE IF r \in saveOk
            THEN SearchLoop([acc EXCEPT !.profiles = SaveProfile(@, r, t, t),
                                        !.newProfiles = @ + 1,
                                        !.allResults = Append(@, r)],
                            rest, saveOk, daysBack, t)
            ELSE SearchLoop([acc EXCEPT !.errorCount = @ + 1],
                            rest, saveOk, daysBack, t)

\* SearchPeople on a page that loaded: the store after it, the results it
\* returns and its statistics. saveOk: the ids whose SaveProfile succeeds.
SearchPeople(ps, results, saveOk, daysBack, t) ==
    SearchLoop([profiles |-> ps, allResults |-> <<>>,
                totalFound |-> Len(results), newProfiles |-> 0,
                duplicates |-> 0, errorCount |-> 0],
               results, saveOk, daysBack, t)

\* CheckRecentConnections: UpdateConnectionStatus(id, "accepted") for every
\* card of the connections page.
RECURSIVE CheckRecentConnections(_, _)
CheckRecentConnections(rows, cards) ==
    IF cards = <<>>
    THEN rows
    ELSE CheckRecentConnections(
            UpdateConnectionStatus(rows, Head(cards), "accepted"), Tail(cards))

\* The loop of CheckAndUpdateConnectionStatuses over the pending requests read
\* before it: a profile that shows the Connected indicator is updated.
RECURSIVE StatusLoop(_, _, _)
StatusLoop(rows, pending, connected) ==
    IF pending = <<>>
    THEN rows
    ELSE StatusLoop(
            IF Head(pending).profile_id \in connected
            THEN UpdateConnectionStatus(rows, Head(pending).profile_id, "accepted")
            ELSE rows,
            Tail(pending), connected)

\* CheckAndUpdateConnectionStatuses: the possible stores after it.
CheckAndUpdateConnectionStatuses(rows, connected) ==
    {StatusLoop(rows, pending, connected) : pending \in GetPendingConnections(rows)}

\* CheckInboxForReplies: UpdateConnectionReplyStatus(id, true) for every
\* conversation whose last bubble is not from me.
RECURSIVE CheckInboxForReplies(_, _)
CheckInboxForReplies(rows, replies) ==
    IF replies = <<>>
    THEN rows
    ELSE CheckInboxForReplies(
            UpdateConnectionReplyStatus(rows, Head(replies), TRUE), Tail(replies))

\* Has the contact a request row with status 'accepted'?
HasAcceptedRequest(rows, id) ==
    \E i \in DOMAIN rows : rows[i].profile_id = id /\ rows[i].status = "accepted"

\* Lists a page can show: sequences over Contacts of length up to MaxListLen.
MaxListLen == 2
PageLists == UNION {[1..n -> Contacts] : n \in 0..MaxListLen}

(***************************************************************************)
(* Initial state: a fresh database (InitDB on an empty file), no run.      *)
(***************************************************************************)
NoCounts == [k \in TaskTypes |-> 0]

\* db.conn.Exec of a write succeeds (TRUE) or returns an error (FALSE).
ExecOutcomes == BOOLEAN

\* The values os.Getenv can give for ENABLE_CONNECTIONS, ENABLE_MESSAGING and
\* CHECK_CONNECTION_STATUS (= "true" or not) where main reads them.
Flags == BOOLEAN

\* Goroutines that call the quota methods of one Database.
Callers == {"c1", "c2"}

\* A caller outside any call, before its first one.
IdleCaller == [pc |-> "idle", today |-> 0, ret |-> "none", limit |-> ZeroCounts]

\* CooldownBetweenActions, in clock units.
Cooldown == 2

\* One hour, in clock units.
Hour == 4

\* The clock stops here.
MaxClock == 8

\* Longest outreach action, and longest write of a counter.
MaxDuration == 3

MaxWrite == 1

(***************************************************************************)
(* The template renderer (internal/automation/templates.go).  A text is a  *)
(* sequence of one-byte characters, so Len is Go's len and SubSeq is Go's  *)
(* slicing.                                                                *)
(***************************************************************************)
ConnectionNoteMaxLength == 300
SubjectMaxLength == 200

\* A template ceiling short enough for small texts to exceed.
ShortMaxLength == 3

\* The longest plain text given to the renderer, and the most pieces a
\* generated template body is made of.
MaxTextLen == 6
MaxPieces == 3

\* strings.Repeat.
Repeat(s, n) == [i \in 1..(n * Len(s)) |-> s[((i - 1) % Len(s)) + 1]]

\* strings.Index, counted from 1, with 0 for "not found".
Index(s, substr) ==
    LET hits == {i \in 1..(Len(s) - Len(substr) + 1) :
                    SubSeq(s, i, i + Len(substr) - 1) = substr}
    IN IF hits = {} THEN 0 ELSE CHOOSE i \in hits : \A j \in hits : i <= j

Contains(s, substr) == Index(s, substr) # 0

\* strings.ReplaceAll: the non-overlapping occurrences, left to right.
RECURSIVE ReplaceAll(_, _, _)
ReplaceAll(s, old, new) ==
    LET i == Index(s, old)
    IN IF i = 0 THEN s
       ELSE SubSeq(s, 1, i - 1) \o new
            \o ReplaceAll(SubSeq(s, i + Len(old), Len(s)), old, new)

\* for strings.Contains(text, old) { text = strings.ReplaceAll(text, old, new) }
RECURSIVE ReplaceWhileContains(_, _, _)
ReplaceWhileContains(text, old, new) ==
    IF Contains(text, old)
    THEN ReplaceWhileContains(ReplaceAll(text, old, new), old, new)
    ELSE text

WhiteSpace == {" ", "\n", "\t", "\r"}

TrimSpace(s) ==
    LET keep == {i \in DOMAIN s : s[i] \notin WhiteSpace}
    IN IF keep = {} THEN <<>>
       ELSE SubSeq(s, CHOOSE i \in keep : \A j \in keep : i <= j,
                      CHOOSE i \in keep : \A j \in keep : i >= j)

\* strings.Split(s, sep) for a non-empty sep.
RECURSIVE Split(_, _)
Split(s, sep) ==
    LET i == Index(s, sep)
    IN IF i = 0 THEN <<s>>
       ELSE <<SubSeq(s, 1, i - 1)>> \o Split(SubSeq(s, i + Len(sep), Len(s)), sep)

RECURSIVE Join(_, _)
Join(elems, sep) ==
    IF elems = <<>> THEN <<>>
    ELSE IF Len(elems) = 1 THEN elems[1]
    ELSE elems[1] \o sep \o Join(Tail(elems), sep)

\* strings.Fields: the maximal runs of non-space characters.
RECURSIVE Fields(_)
Fields(s) ==
    LET t == TrimSpace(s)
        ws == {i \in DOMAIN t : t[i] \in WhiteSpace}
        i == CHOOSE k \in ws : \A j \in ws : k <= j
    IN IF t = <<>> THEN <<>>
       ELSE IF ws = {} THEN <<t>>
       ELSE <<SubSeq(t, 1, i - 1)>> \o Fields(SubSeq(t, i + 1, Len(t)))

cleanupWhitespace(text) ==
    LET spaces == ReplaceWhileContains(text, <<" ", " ">>, <<" ">>)
        newlines == ReplaceWhileContains(spaces, <<"\n", "\n", "\n">>, <<"\n", "\n">>)
        lines == Split(newlines, <<"\n">>)
        trimmed == [i \in DOMAIN lines |-> TrimSpace(lines[i])]
    IN TrimSpace(Join(trimmed, <<"\n">>))

\* The fields of TemplateVariables a template can name, each with the
\* characters of its name.
FieldNames ==
    [FirstName |-> <<"F", "i", "r", "s", "t", "N", "a", "m", "e">>,
     LastName |-> <<"L", "a", "s", "t", "N", "a", "m", "e">>,
     FullName |-> <<"F", "u", "l", "l", "N", "a", "m", "e">>,
     Title |-> <<"T", "i", "t", "l", "e">>,
     Company |-> <<"C", "o", "m", "p", "a", "n", "y">>,
     CustomReason |-> <<"C", "u", "s", "t", "o", "m", "R", "e", "a", "s", "o", "n">>,
     Date |-> <<"D", "a", "t", "e">>]

\* TemplateVariables{}: every field empty.
TemplateVariables == [f \in DOMAIN FieldNames |-> <<>>]

\* time.Now().Format("January 2, 2006"): some non-empty text without braces.
DateText == <<"N", "o", "v", " ", "1">>

LeftDelim == <<"{", "{">>
RightDelim == <<"}", "}">>

NilError == [msg |-> "nil", actual |-> 0, max |-> 0]
Errorf(msg) == [msg |-> msg, actual |-> 0, max |-> 0]

\* template.Parse for bodies of text and {{ }} actions whose operands are
\* fields (.Name, .Name.Name) or bare identifiers: the nodes of the
\* template, or the parse error.  An action that is not closed, is empty,
\* holds a brace, or names a function that is not defined (a bare
\* identifier) does not parse.
RECURSIVE Parse(_)
Parse(body) ==
    LET i == Index(body, LeftDelim)
        rest == SubSeq(body, i + 2, Len(body))
        j == Index(rest, RightDelim)
        action == SubSeq(rest, 1, j - 1)
        operands == Fields(action)
        text == IF i = 1 THEN <<>> ELSE <<[text |-> SubSeq(body, 1, i - 1)]>>
        after == Parse(SubSeq(rest, j + 2, Len(rest)))
    IN IF i = 0
       THEN [err |-> "nil",
             nodes |-> IF body = <<>> THEN <<>> ELSE <<[text |-> body]>>]
       ELSE IF j = 0 THEN [err |-> "unclosed action", nodes |-> <<>>]
       ELSE IF \E k \in DOMAIN action : action[k] \in {"{", "}"}
       THEN [err |-> "unexpected character in action", nodes |-> <<>>]
       ELSE IF operands = <<>>
       THEN [err |-> "missing value for command", nodes |-> <<>>]
       ELSE IF \E k \in DOMAIN operands : operands[k][1] # "."
       THEN [err |-> "function not defined", nodes |-> <<>>]
       ELSE IF \E k \in DOMAIN operands :
                  \E name \in Range(Split(Tail(operands[k]), <<".">>)) : name = <<>>
       THEN [err |-> "bad field", nodes |-> <<>>]
       ELSE IF after.err # "nil" THEN after
       ELSE [err |-> "nil",
             nodes |-> text \o <<[operands |-> operands]>> \o after.nodes]

\* Template.Execute: the text nodes as they are; an action prints the field
\* it names, and fails when the field is not one of TemplateVariables, when
\* it reaches into a string (.A.B), or when the field is given arguments.
RECURSIVE Execute(_, _)
Execute(nodes, data) ==
    LET node == nodes[1]
        chain == Split(Tail(node.operands[1]), <<".">>)
        known == {f \in DOMAIN FieldNames : FieldNames[f] = chain[1]}
        after == Execute(Tail(nodes), data)
    IN IF nodes = <<>> THEN [err |-> "nil", text |-> <<>>]
       ELSE IF "text" \in DOMAIN node
       THEN [after EXCEPT !.text = node.text \o @]
       ELSE IF Len(node.operands) # 1 \/ Len(chain) # 1 \/ known = {}
       THEN [err |-> "can't evaluate field", text |-> <<>>]
       ELSE [after EXCEPT !.text = data[CHOOSE f \in known : TRUE] \o @]

\* RenderTemplate up to the defaults of the name fields and the date.
RenderDefaults(v) ==
    LET v1 == IF v.FullName = <<>> /\ v.FirstName # <<>>
              THEN [v EXCEPT !.FullName = IF v.LastName # <<>>
                                          THEN v.FirstName \o <<" ">> \o v.LastName
                                          ELSE v.FirstName]
              ELSE v
        v2 == IF v1.Date = <<>> THEN [v1 EXCEPT !.Date = DateText] ELSE v1
        parts == Split(v2.FullName, <<" ">>)
    IN IF v2.FirstName = <<>> /\ v2.FullName # <<>>
       THEN [v2 EXCEPT !.FirstName = parts[1],
                       !.LastName = IF Len(parts) > 1
                                    THEN Join(Tail(parts), <<" ">>)
                                    ELSE @]
       ELSE v2

\* template.Parse and Execute of a body on the variables.
Rendered(body, v) ==
    LET t == Parse(body)
        out == Execute(t.nodes, v)
    IN IF t.err # "nil" THEN [err |-> "parse", text |-> <<>>]
       ELSE IF out.err # "nil" THEN [err |-> "execute", text |-> <<>>]
       ELSE out

RenderTemplateNoEmptyCheck(def, v) ==
    LET out == Rendered(def.Body, RenderDefaults(v))
        text == cleanupWhitespace(out.text)
    IN IF out.err = "parse"
       THEN [text |-> <<>>, err |-> Errorf("failed to parse template")]
       ELSE IF out.err = "execute"
       THEN [text |-> <<>>, err |-> Errorf("failed to execute template")]
       ELSE IF Len(text) > def.MaxLength
       THEN [text |-> <<>>,
             err |-> [msg |-> "rendered message exceeds maximum length",
                      actual |-> Len(text), max |-> def.MaxLength]]
       ELSE [text |-> text, err |-> NilError]

RenderTemplateNoCleanup(def, v) ==
    LET out == Rendered(def.Body, RenderDefaults(v))
        text == out.text
    IN IF out.err = "parse"
       THEN [text |-> <<>>, err |-> Errorf("failed to parse template")]
       ELSE IF out.err = "execute"
       THEN [text |-> <<>>, err |-> Errorf("failed to execute template")]
       ELSE IF Len(text) > def.MaxLength
       THEN [text |-> <<>>,
             err |-> [msg |-> "rendered message exceeds maximum length",
                      actual |-> Len(text), max |-> def.MaxLength]]
       ELSE IF TrimSpace(text) = <<>>
       THEN [text |-> <<>>, err |-> Errorf("rendered message is empty")]
       ELSE [text |-> text, err |-> NilError]

RenderTemplate(def, v) ==
    LET out == Rendered(def.Body, RenderDefaults(v))
        text == cleanupWhitespace(out.text)
    IN IF out.err = "parse"
       THEN [text |-> <<>>, err |-> Errorf("failed to parse template")]
       ELSE IF out.err = "execute"
       THEN [text |-> <<>>, err |-> Errorf("failed to execute template")]
       ELSE IF Len(text) > def.MaxLength
       THEN [text |-> <<>>,
             err |-> [msg |-> "rendered message exceeds maximum length",
                      actual |-> Len(text), max |-> def.MaxLength]]
       ELSE IF TrimSpace(text) = <<>>
       THEN [text |-> <<>>, err |-> Errorf("rendered message is empty")]
       ELSE [text |-> text, err |-> NilError]

\* RenderSubject up to the defaults of the name fields.
SubjectDefaults(v) ==
    LET v1 == IF v.FullName = <<>> /\ v.FirstName # <<>>
              THEN [v EXCEPT !.FullName = v.FirstName]
              ELSE v
    IN IF v1.FirstName = <<>> /\ v1.FullName # <<>>
       THEN [v1 EXCEPT !.FirstName = Split(v1.FullName, <<" ">>)[1]]
       ELSE v1

RenderSubject(subjectTemplate, v) ==
    LET out == Rendered(subjectTemplate, SubjectDefaults(v))
    IN IF out.err # "nil" THEN subjectTemplate
       ELSE IF Len(out.text) > SubjectMaxLength
       THEN TrimSpace(SubSeq(out.text, 1, SubjectMaxLength - 3) \o <<".", ".", ".">>)
       ELSE TrimSpace(out.text)

\* TruncateMessage; slicing to a negative length is a run-time panic.
TruncateMessage(message, maxLength) ==
    IF Len(message) <= maxLength
    THEN [text |-> message, err |-> NilError]
    ELSE IF maxLength - 3 < 0
    THEN [text |-> <<>>, err |-> Errorf("panic: slice bounds out of range")]
    ELSE [text |-> SubSeq(message, 1, maxLength - 3) \o <<".", ".", ".">>,
          err |-> NilError]

NoTemplate == [Body |-> <<>>, MaxLength |-> ConnectionNoteMaxLength]
NoResult == [op |-> "none", text |-> <<>>, err |-> NilError]

(***************************************************************************)
(* The activity schedule (automation/scheduler.go).  An instant is a count *)
(* of ticks since 00:00 of a Monday, in a location without clock changes.  *)
(***************************************************************************)
\* Ticks in an hour, and the days the wall clock is drawn from.
TicksPerHour == 2
MaxDays == 7

HoursPerDay == 24
Saturday == 6
Sunday == 0

\* Time.Hour, Time.Weekday (Sunday is 0) and time.Date at a full hour.
HourOf(t) == (t \div TicksPerHour) % HoursPerDay
DayOf(t) == t \div (TicksPerHour * HoursPerDay)
Weekday(t) == (DayOf(t) + 1) % 7
Date(day, hour) == (day * HoursPerDay + hour) * TicksPerHour

DigitValue ==
    [d \in {"0", "1", "2", "3", "4", "5", "6", "7", "8", "9"} |->
        CASE d = "0" -> 0 [] d = "1" -> 1 [] d = "2" -> 2 [] d = "3" -> 3
          [] d = "4" -> 4 [] d = "5" -> 5 [] d = "6" -> 6 [] d = "7" -> 7
          [] d = "8" -> 8 [] d = "9" -> 9]

RECURSIVE Decimal(_)
Decimal(digits) ==
    IF digits = <<>> THEN 0
    ELSE 10 * Decimal(SubSeq(digits, 1, Len(digits) - 1))
         + DigitValue[digits[Len(digits)]]

\* strconv.Atoi: an optional sign and at least one decimal digit.
Atoi(s) ==
    LET signed == s # <<>> /\ s[1] \in {"+", "-"}
        digits == IF signed THEN Tail(s) ELSE s
    IN IF digits = <<>> \/ \E i \in DOMAIN digits : digits[i] \notin DOMAIN DigitValue
       THEN [err |-> "invalid syntax", n |-> 0]
       ELSE [err |-> "nil",
             n |-> IF signed /\ s[1] = "-" THEN 0 - Decimal(digits) ELSE Decimal(digits)]

\* One hour setting of GetDefaultSchedule: the value of the variable when
\* it is set, parses and lies in 0..23, else the default.
HourSetting(value, default) ==
    IF value # <<>> /\ Atoi(value).err = "nil"
       /\ Atoi(value).n >= 0 /\ Atoi(value).n < HoursPerDay
    THEN Atoi(value).n
    ELSE default

GetDefaultSchedule(e) ==
    [StartHour |-> HourSetting(e.ACTIVE_HOURS_START, 9),
     EndHour |-> HourSetting(e.ACTIVE_HOURS_END, 17),
     WeekdaysOnly |-> IF e.WEEKDAYS_ONLY # "" THEN e.WEEKDAYS_ONLY = "true" ELSE TRUE]

IsActiveHoursWithConfig(t, config) ==
    /\ config.WeekdaysOnly => Weekday(t) \notin {Saturday, Sunday}
    /\ ~ (HourOf(t) < config.StartHour \/ HourOf(t) >= config.EndHour)

\* The loop of CalculateNextActiveTime that skips Saturday and Sunday.
RECURSIVE SkipWeekend(_)
SkipWeekend(nextActive) ==
    IF Weekday(nextActive) = Saturday
    THEN SkipWeekend(nextActive + 48 * TicksPerHour)
    ELSE IF Weekday(nextActive) = Sunday
    THEN SkipWeekend(nextActive + 24 * TicksPerHour)
    ELSE nextActive

CalculateNextActiveTime(t, config) ==
    LET today == Date(DayOf(t), config.StartHour)
        nextActive == IF HourOf(t) >= config.EndHour
                      THEN today + 24 * TicksPerHour
                      ELSE today
    IN IF config.WeekdaysOnly THEN SkipWeekend(nextActive) ELSE nextActive

GetTimeUntilNextActiveWithConfig(t, config) ==
    IF IsActiveHoursWithConfig(t, config) THEN 0
    ELSE CalculateNextActiveTime(t, config) - t

\* The environment with no schedule setting, and the scheduler not called.
NoEnv == [ACTIVE_HOURS_START |-> <<>>, ACTIVE_HOURS_END |-> <<>>, WEEKDAYS_ONLY |-> ""]
NoConfig == [StartHour |-> 0, EndHour |-> 0, WeekdaysOnly |-> FALSE]
NoSchedule == [op |-> "none", config |-> NoConfig, active |-> FALSE, next |-> 0, until |-> 0]

(***************************************************************************)
(* The saved session (storage/state.go).  Times are in days, as now is.    *)
(***************************************************************************)
\* A session is valid for 7 days after its last login.
SessionDays == 7

\* The gap between two runs is at most MaxGap days, and runs start up to
\* day MaxSessionDay.
MaxGap == 8
MaxSessionDay == 16

\* LoadState when data/state.json does not exist.
NoState == [exists |-> FALSE, SessionValid |-> FALSE, LastLoginTime |-> 0]

IsSessionValid(state, t) ==
    /\ state.exists
    /\ state.SessionValid
    /\ state.LastLoginTime > t - SessionDays

\* SaveState: the file it writes.  The last login time of the file is kept
\* when the file said the session was valid.
SaveState(file, sessionValid, t) ==
    [exists |-> TRUE,
     SessionValid |-> sessionValid,
     LastLoginTime |-> IF file.exists /\ file.SessionValid
                       THEN file.LastLoginTime
                       ELSE t]

\* InvalidateSession ends in SaveState(false); the state it builds before is
\* dropped.
InvalidateSession(file, t) == SaveState(file, FALSE, t)

(***************************************************************************)
(* Profile links (utils.ExtractProfileID, parseProfileFromContainer).       *)
(***************************************************************************)
\* The first position at or after start holding "/" or "?", or Len(url) + 1.
SegmentEnd(url, start) ==
    LET stops == {i \in start..Len(url) : url[i] \in {"/", "?"}}
    IN IF stops = {} THEN Len(url) + 1
       ELSE CHOOSE i \in stops : \A j \in stops : i <= j

\* utils.ExtractProfileID: the text between the first "/in/" and the next
\* "/" or "?", or the empty text.
ExtractProfileID(url) ==
    LET inIdx == Index(url, <<"/", "i", "n", "/">>)
        start == inIdx + 4
        end == SegmentEnd(url, start)
    IN IF inIdx # 0 /\ start < end THEN SubSeq(url, start, end - 1) ELSE <<>>

\* strings.TrimSuffix
TrimSuffix(s, suffix) ==
    IF Len(s) >= Len(suffix) /\ SubSeq(s, Len(s) - Len(suffix) + 1, Len(s)) = suffix
    THEN SubSeq(s, 1, Len(s) - Len(suffix))
    ELSE s

\* parseProfileFromContainer, from the link found to the ProfileID: the
\* query is cut off, the URL is split at "/in/", and the second part without
\* one closing "/" is the ProfileID.
parseProfileFromContainer(href) ==
    IF ~Contains(href, <<"/", "i", "n", "/">>)
    THEN [ProfileID |-> <<>>, err |-> Errorf("no valid profile URL found")]
    ELSE LET idx == Index(href, <<"?">>)
             profileURL == IF idx # 0 THEN SubSeq(href, 1, idx - 1) ELSE href
             parts == Split(profileURL, <<"/", "i", "n", "/">>)
             profileID == IF Contains(profileURL, <<"/", "i", "n", "/">>) /\ Len(parts) >= 2
                          THEN TrimSuffix(parts[2], <<"/">>)
                          ELSE <<>>
         IN IF profileID = <<>>
            THEN [ProfileID |-> <<>>,
                  err |-> Errorf("could not extract profile ID from URL")]
            ELSE [ProfileID |-> profileID, err |-> NilError]

\* A link nothing was asked about yet.
NoProbe ==
    [op |-> "none", url |-> <<>>, checkpoint |-> FALSE,
     ProfileID |-> <<>>, err |-> NilError, key |-> <<>>]

\* main before its session check.
NoSession == [pc |-> "idle", sessionValid |-> FALSE]

HostIdle ==
    /\ env = NoEnv
    /\ wall = 0
    /\ sched = NoSchedule
    /\ stateFile = NoState /\ probe = NoProbe
    /\ session = NoSession
    /\ savedAt = -1

\* NewRateLimiter: the last action is put one hour back, so that the first
\* call does not wait.
NewRateLimiter ==
    /\ clock = 0
    /\ lastActionTime = 0 - Hour
    /\ ppc = [at |-> "ready", kind |-> "none"]
    /\ lastStart = <<>>
    /\ lastDone = <<>>

\* ApplyCooldown entered at time t with the given lastActionTime: the time
\* at which the sleep, if any, is over; lastActionTime is set to it.
ApplyCooldownSkipped(last, t) == t

\* A cooldown that adds the time since the last action to the wait.
ApplyCooldownOverslept(last, t) ==
    IF t - last < Cooldown THEN t + (Cooldown + (t - last)) ELSE t

ApplyCooldown(last, t) ==
    IF t - last < Cooldown THEN t + (Cooldown - (t - last)) ELSE t

Init ==
    /\ now = 0
    /\ ticks = 0
    /\ profiles = <<>>
    /\ connection_requests = <<>>
    /\ messages = <<>>
    /\ rate_limits = <<>>
    /\ pc = "idle"
    /\ queue = <<>>
    /\ count = 0
    /\ templateID = "msg_introduction"
    /\ current = "none"
    /\ stats = ZeroStats
    /\ searchStats = ZeroSearchStats
    /\ recorded = NoCounts
    /\ performed = [k \in OutreachTypes |-> 0]
    /\ repliedSeen = {}
    /\ ret = "nil"
    /\ NewRateLimiter
    /\ callers = [c \in Callers |-> IdleCaller]
    /\ attempted = {}
    /\ tmplDef = NoTemplate
    /\ tmplVars = TemplateVariables
    /\ result = NoResult
    /\ HostIdle

(***************************************************************************)
(* The clock and the process.                                              *)
(***************************************************************************)
\* Time passes between calls: a new date key, and the look-back windows move.
Tick ==
    /\ ticks < MaxTicks
    /\ \E j \in Jumps : now' = now + j
    /\ ticks' = ticks + 1
    /\ recorded' = NoCounts
    /\ performed' = [k \in OutreachTypes |-> 0]
    /\ UNCHANGED <<storeVars, runVars, repliedSeen, ret>>
    /\ UNCHANGED tallyVars
    /\ UNCHANGED paceVars
    /\ UNCHANGED quotaVars
    /\ UNCHANGED attemptVars
    /\ UNCHANGED renderVars
    /\ UNCHANGED hostVars
    /\ UNCHANGED <<sessionVars, urlVars>>

\* The process ends (main blocks in select{} until it is killed) or is killed
\* at any earlier point; the database file stays.
Interrupt ==
    /\ pc # "idle"
    /\ pc' = "idle"
    /\ queue' = <<>>
    /\ count' = 0
    /\ templateID' = "msg_introduction"
    /\ current' = "none"
    /\ ret' = "nil"
    /\ UNCHANGED <<now, ticks, storeVars, histVars>>
    /\ stats' = ZeroStats
    /\ searchStats' = ZeroSearchStats
    /\ UNCHANGED paceVars
    /\ UNCHANGED quotaVars
    /\ attempted' = {}
    /\ UNCHANGED renderVars
    /\ UNCHANGED hostVars
    /\ UNCHANGED <<sessionVars, urlVars>>

\* main up to step 8: GetDailyStats reads (and so creates) today's
\* rate_limits row.
StartRun ==
    /\ pc = "idle"
    /\ rate_limits' = GetTodayRateLimitStore(rate_limits, now)
    /\ pc' = "search_gate"
    /\ UNCHANGED <<now, ticks, profiles, connection_requests, messages,
                   queue, count, templateID, current, histVars, ret>>
    /\ UNCHANGED tallyVars
    /\ UNCHANGED paceVars
    /\ UNCHANGED quotaVars
    /\ attempted' = {}
    /\ UNCHANGED renderVars
    /\ UNCHANGED hostVars
    /\ UNCHANGED <<sessionVars, urlVars>>

\* The effect every CheckDailyLimit call has on the state.
Checked(taskType) ==
    /\ rate_limits' = GetTodayRateLimitStore(rate_limits, now)
    /\ ret' = CheckDailyLimit(rate_limits, taskType, now)

\* The effect every RecordAction call has on the state.
Recorded(taskType) ==
    \E dbOk \in ExecOutcomes :
        /\ rate_limits' = RecordAction(rate_limits, taskType, now, dbOk)
        /\ recorded' = IF dbOk THEN [recorded EXCEPT ![taskType] = @ + 1] ELSE recorded
        /\ ret' = IF dbOk THEN "nil" ELSE "error"

(***************************************************************************)
(* main step 8: search and the immediate connection flow.                  *)
(***************************************************************************)
\* rateLimiter.CheckDailyLimit(TaskSearch); canSearch := err == nil
\* A search gate at which an exhausted search quota ends the whole run.
SearchGateEndsRun ==
    /\ pc = "search_gate"
    /\ Checked(TaskSearch)
    /\ pc' = IF ret' = "nil" THEN "search" ELSE "done"
    /\ UNCHANGED <<now, ticks, profiles, connection_requests, messages,
                   queue, count, templateID, current, histVars>>
    /\ UNCHANGED tallyVars
    /\ UNCHANGED paceVars
    /\ UNCHANGED quotaVars
    /\ UNCHANGED attemptVars
    /\ UNCHANGED renderVars
    /\ UNCHANGED hostVars
    /\ UNCHANGED <<sessionVars, urlVars>>

SearchGate ==
    /\ pc = "search_gate"
    /\ Checked(TaskSearch)
    /\ pc' = IF ret' = "nil" THEN "search" ELSE "backlog_gate"
    /\ UNCHANGED <<now, ticks, profiles, connection_requests, messages,
                   queue, count, templateID, current, histVars>>
    /\ UNCHANGED tallyVars
    /\ UNCHANGED paceVars
    /\ UNCHANGED quotaVars
    /\ UNCHANGED attemptVars
    /\ UNCHANGED renderVars
    /\ UNCHANGED hostVars
    /\ UNCHANGED <<sessionVars, urlVars>>

\* SearchPeople returns an error (navigation, or the checkpoint page): main
\* logs it, records nothing and goes on to the backlog.
SearchFailed ==
    /\ pc = "search"
    /\ pc' = "backlog_gate"
    /\ \E url \in PageURLs :
        ret' = IF IsLinkedInCheckpoint(url) THEN "checkpoint" ELSE "error"
    /\ UNCHANGED <<now, ticks, storeVars, queue, count, templateID, current,
                   histVars>>
    /\ UNCHANGED tallyVars
    /\ UNCHANGED paceVars
    /\ UNCHANGED quotaVars
    /\ UNCHANGED attemptVars
    /\ UNCHANGED renderVars
    /\ UNCHANGED hostVars
    /\ UNCHANGED <<sessionVars, urlVars>>

\* SearchPeople returns its results.
SearchDone ==
    /\ pc = "search"
    /\ \E results \in PageLists, saveOk \in SUBSET Contacts :
        LET out == SearchPeople(profiles, results, saveOk, DaysBack, now)
        IN /\ profiles' = out.profiles
           /\ queue' = out.allResults
           /\ searchStats' = [totalFound |-> out.totalFound,
                               newProfiles |-> out.newProfiles,
                               duplicates |-> out.duplicates,
                               errorCount |-> out.errorCount]
    /\ pc' = "search_record"
    /\ ret' = "nil"
    /\ UNCHANGED <<now, ticks, connection_requests, messages, rate_limits,
                   count, templateID, current, histVars>>
    /\ UNCHANGED stats
    /\ UNCHANGED paceVars
    /\ UNCHANGED quotaVars
    /\ UNCHANGED attemptVars
    /\ UNCHANGED renderVars
    /\ UNCHANGED hostVars
    /\ UNCHANGED <<sessionVars, urlVars>>

\* rateLimiter.RecordAction(TaskSearch), then the gate of the immediate flow.
SearchRecord ==
    /\ pc = "search_record"
    /\ Recorded(TaskSearch)
    /\ \E connections \in Flags :
        IF Len(queue) > 0 /\ connections
        THEN pc' = "immediate" /\ queue' = queue
        ELSE pc' = "backlog_gate" /\ queue' = <<>>
    /\ count' = 0
    /\ UNCHANGED <<now, ticks, profiles, connection_requests, messages,
                   templateID, current, performed, repliedSeen>>
    /\ searchStats' = ZeroSearchStats
    /\ UNCHANGED stats
    /\ UNCHANGED paceVars
    /\ UNCHANGED quotaVars
    /\ UNCHANGED attemptVars
    /\ UNCHANGED renderVars
    /\ UNCHANGED hostVars
    /\ UNCHANGED <<sessionVars, urlVars>>

\* The immediate loop ends: no result left, or three requests sent.
ImmediateEnd ==
    /\ pc = "immediate"
    /\ queue = <<>> \/ count >= ImmediateLimit
    /\ pc' = "backlog_gate"
    /\ queue' = <<>>
    /\ UNCHANGED <<now, ticks, storeVars, count, templateID, current,
                   histVars, ret>>
    /\ UNCHANGED tallyVars
    /\ UNCHANGED paceVars
    /\ UNCHANGED quotaVars
    /\ UNCHANGED attemptVars
    /\ UNCHANGED renderVars
    /\ UNCHANGED hostVars
    /\ UNCHANGED <<sessionVars, urlVars>>

\* One iteration of the immediate loop: CheckDailyLimit, SendConnectionRequest.
ImmediateSend ==
    /\ pc = "immediate"
    /\ queue # <<>> /\ count < ImmediateLimit
    /\ rate_limits' = GetTodayRateLimitStore(rate_limits, now)
    /\ IF CheckDailyLimit(rate_limits, TaskConnection, now) # "nil"
       THEN /\ ret' = CheckDailyLimit(rate_limits, TaskConnection, now)
            /\ pc' = "backlog_gate"
            /\ queue' = <<>>
            /\ UNCHANGED <<connection_requests, current, performed, attempted>>
       ELSE \E outcome \in ConnectOutcomes, dbOk \in ExecOutcomes, url \in PageURLs :
            /\ (outcome = "checkpoint") <=> IsLinkedInCheckpoint(url)
            /\ outcome = "sent" => Len(connection_requests) < MaxRequestRows
            /\ outcome = "sent" => performed[TaskConnection] < MaxActions
            /\ performed' = IF outcome = "sent"
                             THEN [performed EXCEPT ![TaskConnection] = @ + 1]
                             ELSE performed
            /\ connection_requests' =
                   SendConnectionRequest(connection_requests, Head(queue), now, outcome, dbOk)
            /\ ret' = IF outcome = "sent" THEN "nil" ELSE outcome
            /\ queue' = Tail(queue)
            /\ attempted' = attempted \cup {Head(queue)}
            /\ IF outcome = "sent"
               THEN /\ pc' = "imm_record"
                    /\ current' = Head(queue)
               ELSE /\ pc' = "immediate"
                    /\ UNCHANGED current
    /\ UNCHANGED <<now, ticks, profiles, messages, count, templateID,
                   recorded, repliedSeen>>
    /\ UNCHANGED tallyVars
    /\ UNCHANGED paceVars
    /\ UNCHANGED quotaVars
    /\ UNCHANGED renderVars
    /\ UNCHANGED hostVars
    /\ UNCHANGED <<sessionVars, urlVars>>

\* rateLimiter.RecordAction(TaskConnection); count++
ImmediateRecord ==
    /\ pc = "imm_record"
    /\ Recorded(TaskConnection)
    /\ count' = count + 1
    /\ current' = "none"
    /\ pc' = "immediate"
    /\ UNCHANGED <<now, ticks, profiles, connection_requests, messages,
                   queue, templateID, performed, repliedSeen>>
    /\ UNCHANGED tallyVars
    /\ UNCHANGED paceVars
    /\ UNCHANGED quotaVars
    /\ UNCHANGED attemptVars
    /\ UNCHANGED renderVars
    /\ UNCHANGED hostVars
    /\ UNCHANGED <<sessionVars, urlVars>>

(***************************************************************************)
(* main step 9: the backlog, SendConnectionRequests.                       *)
(***************************************************************************)
\* ENABLE_CONNECTIONS, CheckDailyLimit, GetRecentProfiles, the requests that
\* PrepareConnectionRequestFromProfile could build.
BacklogGate ==
    /\ pc = "backlog_gate"
    /\ \E connections \in Flags :
        IF ~connections
        THEN /\ pc' = "followups"
             /\ UNCHANGED <<rate_limits, queue, ret>>
        ELSE /\ Checked(TaskConnection)
             /\ IF ret' # "nil"
                THEN pc' = "followups" /\ queue' = <<>>
                ELSE \E limit \in {1, MaxConnectionsPerRun}, prepared \in SUBSET Contacts :
                     \E found \in GetRecentProfiles(profiles, connection_requests,
                                                    limit, DaysBack, now) :
                         /\ queue' = SelectSeq(found, LAMBDA p : p \in prepared)
                         /\ pc' = IF queue' = <<>> THEN "followups" ELSE "backlog"
    /\ UNCHANGED <<now, ticks, profiles, connection_requests, messages,
                   count, templateID, current, histVars>>
    /\ stats' = ZeroStats
    /\ UNCHANGED searchStats
    /\ UNCHANGED paceVars
    /\ UNCHANGED quotaVars
    /\ UNCHANGED attemptVars
    /\ UNCHANGED renderVars
    /\ UNCHANGED hostVars
    /\ UNCHANGED <<sessionVars, urlVars>>

\* SendConnectionRequests has gone through its requests.
BacklogEnd ==
    /\ pc = "backlog"
    /\ queue = <<>>
    /\ pc' = "followups"
    /\ UNCHANGED <<now, ticks, storeVars, queue, count, templateID, current,
                   histVars, ret>>
    /\ UNCHANGED tallyVars
    /\ UNCHANGED paceVars
    /\ UNCHANGED quotaVars
    /\ UNCHANGED attemptVars
    /\ UNCHANGED renderVars
    /\ UNCHANGED hostVars
    /\ UNCHANGED <<sessionVars, urlVars>>

\* One iteration of SendConnectionRequests: CheckDailyLimit, SendConnectionRequest.
BacklogSend ==
    /\ pc = "backlog"
    /\ queue # <<>>
    /\ rate_limits' = GetTodayRateLimitStore(rate_limits, now)
    /\ IF CheckDailyLimit(rate_limits, TaskConnection, now) # "nil"
       THEN /\ ret' = CheckDailyLimit(rate_limits, TaskConnection, now)
            /\ stats' = [stats EXCEPT !.totalAttempted = @ + 1, !.errors = @ + 1]
            /\ pc' = "followups"
            /\ UNCHANGED <<connection_requests, current, performed, queue, attempted>>
       ELSE \E outcome \in ConnectOutcomes, dbOk \in ExecOutcomes, url \in PageURLs :
            /\ (outcome = "checkpoint") <=> IsLinkedInCheckpoint(url)
            /\ outcome = "sent" => Len(connection_requests) < MaxRequestRows
            /\ outcome = "sent" => performed[TaskConnection] < MaxActions
            /\ performed' = IF outcome = "sent"
                             THEN [performed EXCEPT ![TaskConnection] = @ + 1]
                             ELSE performed
            /\ connection_requests' =
                   SendConnectionRequest(connection_requests, Head(queue), now, outcome, dbOk)
            /\ ret' = IF outcome = "sent" THEN "nil" ELSE outcome
            /\ stats' = Tally([stats EXCEPT !.totalAttempted = @ + 1], outcome)
            /\ queue' = Tail(queue)
            /\ attempted' = attempted \cup {Head(queue)}
            /\ IF outcome = "sent"
               THEN /\ pc' = "backlog_record"
                    /\ current' = Head(queue)
               ELSE /\ pc' = "backlog"
                    /\ UNCHANGED current
    /\ UNCHANGED <<now, ticks, profiles, messages, count, templateID,
                   recorded, repliedSeen, searchStats>>
    /\ UNCHANGED paceVars
    /\ UNCHANGED quotaVars
    /\ UNCHANGED renderVars
    /\ UNCHANGED hostVars
    /\ UNCHANGED <<sessionVars, urlVars>>

\* rateLimiter.RecordAction(TaskConnection) after a successful request.
BacklogRecord ==
    /\ pc = "backlog_record"
    /\ Recorded(TaskConnection)
    /\ current' = "none"
    /\ pc' = "backlog"
    /\ UNCHANGED <<now, ticks, profiles, connection_requests, messages,
                   queue, count, templateID, performed, repliedSeen>>
    /\ UNCHANGED tallyVars
    /\ UNCHANGED paceVars
    /\ UNCHANGED quotaVars
    /\ UNCHANGED attemptVars
    /\ UNCHANGED renderVars
    /\ UNCHANGED hostVars
    /\ UNCHANGED <<sessionVars, urlVars>>

(***************************************************************************)
(* main step 10: ProcessDailyFollowUps.                                    *)
(***************************************************************************)
\* ENABLE_MESSAGING or CHECK_CONNECTION_STATUS starts the follow-up workflow.
FollowUps ==
    /\ pc = "followups"
    /\ \E messaging \in Flags, status \in Flags :
        pc' = IF status THEN "status"
              ELSE IF messaging THEN "inbox"
              ELSE "done"
    /\ queue' = <<>>
    /\ stats' = ZeroStats
    /\ UNCHANGED <<now, ticks, storeVars, count, templateID, current,
                   histVars, ret, searchStats>>
    /\ UNCHANGED paceVars
    /\ UNCHANGED quotaVars
    /\ attempted' = {}
    /\ UNCHANGED renderVars
    /\ UNCHANGED hostVars
    /\ UNCHANGED <<sessionVars, urlVars>>

\* CheckRecentConnections on the cards the connections page shows (none when
\* the page fails to load).
StatusCheck ==
    /\ pc = "status"
    /\ \E cards \in PageLists :
        connection_requests' = CheckRecentConnections(connection_requests, cards)
    /\ pc' = "inbox"
    /\ UNCHANGED <<now, ticks, profiles, messages, rate_limits, queue, count,
                   templateID, current, histVars, ret>>
    /\ UNCHANGED tallyVars
    /\ UNCHANGED paceVars
    /\ UNCHANGED quotaVars
    /\ UNCHANGED attemptVars
    /\ UNCHANGED renderVars
    /\ UNCHANGED hostVars
    /\ UNCHANGED <<sessionVars, urlVars>>

\* CheckInboxForReplies on the conversations whose last message is a reply.
InboxCheck ==
    /\ pc = "inbox"
    /\ \E replies \in PageLists :
        /\ connection_requests' = CheckInboxForReplies(connection_requests, replies)
        /\ repliedSeen' = repliedSeen \cup Range(replies)
    /\ \E messaging \in Flags :
        pc' = IF messaging THEN "msg_gate" ELSE "done"
    /\ UNCHANGED <<now, ticks, profiles, messages, rate_limits, queue, count,
                   templateID, current, recorded, performed, ret>>
    /\ UNCHANGED tallyVars
    /\ UNCHANGED paceVars
    /\ UNCHANGED quotaVars
    /\ UNCHANGED attemptVars
    /\ UNCHANGED renderVars
    /\ UNCHANGED hostVars
    /\ UNCHANGED <<sessionVars, urlVars>>

\* CheckDailyLimit(TaskMessage), GetAcceptedConnectionProfiles(maxMessages, 30),
\* MESSAGE_TEMPLATE.
MessageGate ==
    /\ pc = "msg_gate"
    /\ Checked(TaskMessage)
    /\ IF ret' # "nil"
       THEN pc' = "done" /\ queue' = <<>> /\ UNCHANGED templateID
       ELSE /\ \E limit \in {1, MaxMessagesPerRun} :
                queue' \in GetAcceptedConnectionProfiles(
                              profiles, connection_requests, messages,
                              limit, DaysBack, now)
            /\ templateID' \in Templates
            /\ pc' = "msg"
    /\ UNCHANGED <<now, ticks, profiles, connection_requests, messages,
                   count, current, histVars>>
    /\ UNCHANGED tallyVars
    /\ UNCHANGED paceVars
    /\ UNCHANGED quotaVars
    /\ UNCHANGED attemptVars
    /\ UNCHANGED renderVars
    /\ UNCHANGED hostVars
    /\ UNCHANGED <<sessionVars, urlVars>>

\* The message loop has gone through its profiles.
MessageEnd ==
    /\ pc = "msg"
    /\ queue = <<>>
    /\ pc' = "done"
    /\ UNCHANGED <<now, ticks, storeVars, queue, count, templateID, current,
                   histVars, ret>>
    /\ UNCHANGED tallyVars
    /\ UNCHANGED paceVars
    /\ UNCHANGED quotaVars
    /\ UNCHANGED attemptVars
    /\ UNCHANGED renderVars
    /\ UNCHANGED hostVars
    /\ UNCHANGED <<sessionVars, urlVars>>

\* What rendering and the profile page let one iteration do: "skip" is a
\* template that fails to render or a SendMessage error.
MessageOutcomes == {"sent", "skip"}

\* One iteration of the message loop: CheckDailyLimit, RenderTemplate, SendMessage.
MessageSend ==
    /\ pc = "msg"
    /\ queue # <<>>
    /\ Checked(TaskMessage)
    /\ IF ret' # "nil"
       THEN /\ pc' = "done"
            /\ queue' = <<>>
            /\ UNCHANGED <<messages, current, performed, attempted>>
       ELSE \E outcome \in MessageOutcomes, dbOk \in ExecOutcomes :
            /\ outcome = "sent" => Len(messages) < MaxMessageRows
            /\ outcome = "sent" => performed[TaskMessage] < MaxActions
            /\ performed' = IF outcome = "sent"
                             THEN [performed EXCEPT ![TaskMessage] = @ + 1]
                             ELSE performed
            /\ messages' =
                   SendMessage(messages, Head(queue), templateID, now, outcome, dbOk)
            /\ queue' = Tail(queue)
            /\ attempted' = attempted \cup {Head(queue)}
            /\ IF outcome = "sent"
               THEN /\ pc' = "msg_record"
                    /\ current' = Head(queue)
               ELSE /\ pc' = "msg"
                    /\ UNCHANGED current
    /\ UNCHANGED <<now, ticks, profiles, connection_requests, count, templateID,
                   recorded, repliedSeen>>
    /\ UNCHANGED tallyVars
    /\ UNCHANGED paceVars
    /\ UNCHANGED quotaVars
    /\ UNCHANGED renderVars
    /\ UNCHANGED hostVars
    /\ UNCHANGED <<sessionVars, urlVars>>

\* rateLimiter.RecordAction(TaskMessage) after SendMessage returned nil.
MessageRecord ==
    /\ pc = "msg_record"
    /\ Recorded(TaskMessage)
    /\ current' = "none"
    /\ pc' = "msg"
    /\ UNCHANGED <<now, ticks, profiles, connection_requests, messages,
                   queue, count, templateID, performed, repliedSeen>>
    /\ UNCHANGED tallyVars
    /\ UNCHANGED paceVars
    /\ UNCHANGED quotaVars
    /\ UNCHANGED attemptVars
    /\ UNCHANGED renderVars
    /\ UNCHANGED hostVars
    /\ UNCHANGED <<sessionVars, urlVars>>

Next ==
    \/ Interrupt
    \/ StartRun
    \/ SearchGate
    \/ SearchFailed
    \/ SearchDone
    \/ SearchRecord
    \/ ImmediateEnd
    \/ ImmediateSend
    \/ ImmediateRecord
    \/ BacklogGate
    \/ BacklogEnd
    \/ BacklogSend
    \/ BacklogRecord
    \/ FollowUps
    \/ StatusCheck
    \/ InboxCheck
    \/ MessageGate
    \/ MessageEnd
    \/ MessageSend
    \/ MessageRecord

Spec == Init /\ [][Next]_vars

(***************************************************************************)
(* The repository called directly: any caller of storage.Database, in any  *)
(* order, with the clock moving between calls.                              *)
(***************************************************************************)
\* The store after a first run whose search discovered every contact and
\* sent nothing.
RepoInit ==
    /\ now = 0
    /\ ticks = 0
    /\ profiles = SearchPeople(<<>>, CHOOSE q \in Perms(Contacts) : TRUE,
                            Contacts, DaysBack, 0).profiles
    /\ connection_requests = <<>>
    /\ messages = <<>>
    /\ rate_limits = GetTodayRateLimitStore(<<>>, 0)
    /\ pc = "idle"
    /\ queue = <<>>
    /\ count = 0
    /\ templateID = "msg_introduction"
    /\ current = "none"
    /\ stats = ZeroStats
    /\ searchStats = ZeroSearchStats
    /\ recorded = NoCounts
    /\ performed = [k \in OutreachTypes |-> 0]
    /\ repliedSeen = {}
    /\ ret = "nil"
    /\ NewRateLimiter
    /\ callers = [c \in Callers |-> IdleCaller]
    /\ attempted = {}
    /\ tmplDef = NoTemplate
    /\ tmplVars = TemplateVariables
    /\ result = NoResult
    /\ HostIdle

RepoSaveConnectionRequest ==
    \E id \in Contacts :
        /\ Len(connection_requests) < MaxStoreRows
        /\ connection_requests' =
               SaveConnectionRequest(connection_requests, NewRequest(id, now))
        /\ ret' = "nil"
        /\ queue' = <<>>
        /\ UNCHANGED <<now, ticks, profiles, messages, rate_limits,
                       pc, count, templateID, current, histVars>>
        /\ UNCHANGED tallyVars
        /\ UNCHANGED paceVars
        /\ UNCHANGED quotaVars
        /\ UNCHANGED attemptVars
        /\ UNCHANGED renderVars
        /\ UNCHANGED hostVars
        /\ UNCHANGED <<sessionVars, urlVars>>

RepoUpdateConnectionStatus ==
    \E id \in Contacts, status \in Statuses :
        /\ connection_requests' =
               UpdateConnectionStatus(connection_requests, id, status)
        /\ ret' = "nil"
        /\ queue' = <<>>
        /\ UNCHANGED <<now, ticks, profiles, messages, rate_limits,
                       pc, count, templateID, current, histVars>>
        /\ UNCHANGED tallyVars
        /\ UNCHANGED paceVars
        /\ UNCHANGED quotaVars
        /\ UNCHANGED attemptVars
        /\ UNCHANGED renderVars
        /\ UNCHANGED hostVars
        /\ UNCHANGED <<sessionVars, urlVars>>

RepoUpdateConnectionReplyStatus ==
    \E id \in Contacts, hasReplied \in BOOLEAN :
        /\ connection_requests' =
               UpdateConnectionReplyStatus(connection_requests, id, hasReplied)
        /\ repliedSeen' = IF hasReplied THEN repliedSeen \cup {id} ELSE repliedSeen
        /\ ret' = "nil"
        /\ queue' = <<>>
        /\ UNCHANGED <<now, ticks, profiles, messages, rate_limits,
                       pc, count, templateID, current, recorded, performed>>
        /\ UNCHANGED tallyVars
        /\ UNCHANGED paceVars
        /\ UNCHANGED quotaVars
        /\ UNCHANGED attemptVars
        /\ UNCHANGED renderVars
        /\ UNCHANGED hostVars
        /\ UNCHANGED <<sessionVars, urlVars>>

RepoSaveMessage ==
    \E id \in Contacts, template \in Templates :
        /\ Len(messages) < MaxStoreRows
        /\ messages' = SaveMessage(messages, NewMessage(id, template, now))
        /\ ret' = "nil"
        /\ queue' = <<>>
        /\ UNCHANGED <<now, ticks, profiles, connection_requests, rate_limits,
                       pc, count, templateID, current, histVars>>
        /\ UNCHANGED tallyVars
        /\ UNCHANGED paceVars
        /\ UNCHANGED quotaVars
        /\ UNCHANGED attemptVars
        /\ UNCHANGED renderVars
        /\ UNCHANGED hostVars
        /\ UNCHANGED <<sessionVars, urlVars>>

\* GetAcceptedConnectionProfiles(MaxMessagesPerRun, DaysBack): the list read
\* is kept in queue.
RepoGetAcceptedConnectionProfiles ==
    /\ queue' \in GetAcceptedConnectionProfiles(profiles, connection_requests,
                       messages, MaxMessagesPerRun, DaysBack, now)
    /\ ret' = "selected"
    /\ UNCHANGED <<now, ticks, storeVars, pc, count, templateID, current,
                   histVars>>
    /\ UNCHANGED tallyVars
    /\ UNCHANGED paceVars
    /\ UNCHANGED quotaVars
    /\ UNCHANGED attemptVars
    /\ UNCHANGED renderVars
    /\ UNCHANGED hostVars
    /\ UNCHANGED <<sessionVars, urlVars>>

\* CheckAndUpdateConnectionStatuses, the page showing `connected` as connected.
RepoCheckAndUpdateConnectionStatuses ==
    \E connected \in SUBSET Contacts :
        /\ connection_requests' \in
               CheckAndUpdateConnectionStatuses(connection_requests, connected)
        /\ ret' = "polled"
        /\ queue' = <<>>
        /\ UNCHANGED <<now, ticks, profiles, messages, rate_limits,
                       pc, count, templateID, current, histVars>>
        /\ UNCHANGED tallyVars
        /\ UNCHANGED paceVars
        /\ UNCHANGED quotaVars
        /\ UNCHANGED attemptVars
        /\ UNCHANGED renderVars
        /\ UNCHANGED hostVars
        /\ UNCHANGED <<sessionVars, urlVars>>

RepoNext ==
    \/ Tick
    \/ RepoSaveConnectionRequest
    \/ RepoUpdateConnectionStatus
    \/ RepoUpdateConnectionReplyStatus
    \/ RepoSaveMessage
    \/ RepoGetAcceptedConnectionProfiles
    \/ RepoCheckAndUpdateConnectionStatuses

RepoSpec == RepoInit /\ [][RepoNext]_vars

(***************************************************************************)
(* SendConnectionRequests on its own: one call with any list of prepared   *)
(* requests, on a day whose connection counter already stands at any value *)
(* up to the ceiling.                                                      *)
(***************************************************************************)
\* Contacts a batch may name.
BatchContacts == {"a", "b", "c"}

\* Lists of distinct contacts, of every length up to all of them.
Batches == UNION {Perms(S) : S \in SUBSET BatchContacts}

ConnectInit ==
    /\ now = 0
    /\ ticks = 0
    /\ profiles = SearchPeople(<<>>, CHOOSE q \in Perms(BatchContacts) : TRUE,
                               BatchContacts, DaysBack, 0).profiles
    /\ connection_requests = <<>>
    /\ messages = <<>>
    /\ \E c0 \in 0..MaxConnectionsPerDay :
        rate_limits = [d \in {0} |-> [ZeroCounts EXCEPT !.connection_count = c0]]
    /\ pc = "backlog"
    /\ queue \in Batches
    /\ count = 0
    /\ templateID = "msg_introduction"
    /\ current = "none"
    /\ stats = ZeroStats
    /\ searchStats = ZeroSearchStats
    /\ recorded = NoCounts
    /\ performed = [k \in OutreachTypes |-> 0]
    /\ repliedSeen = {}
    /\ ret = "nil"
    /\ NewRateLimiter
    /\ callers = [c \in Callers |-> IdleCaller]
    /\ attempted = {}
    /\ tmplDef = NoTemplate
    /\ tmplVars = TemplateVariables
    /\ result = NoResult
    /\ HostIdle

ConnectNext == BacklogSend \/ BacklogRecord \/ BacklogEnd

ConnectSpec == ConnectInit /\ [][ConnectNext]_vars

(***************************************************************************)
(* The pace of one run: the Actuator's actions and the RateLimiter's waits *)
(* on the clock of one day.  main performs an action, then calls           *)
(* RecordAction for it; SendConnectionRequests calls ApplyCooldown once    *)
(* more between two contacts.                                              *)
(***************************************************************************)
\* The kinds of action main can come to after an action of a kind: the
\* search, then connection requests, then messages.
Following(kind) ==
    CASE kind = "none" -> TaskTypes
      [] kind = TaskSearch -> {TaskConnection, TaskMessage}
      [] kind = TaskConnection -> {TaskConnection, TaskMessage}
      [] kind = TaskMessage -> {TaskMessage}

\* The Actuator performs one search, connection request or message, which
\* takes some time and succeeds.
PaceAct ==
    /\ ppc.at = "ready"
    /\ \E kind \in Following(ppc.kind), d \in 0..MaxDuration :
        /\ clock + d <= MaxClock
        /\ clock' = clock + d
        /\ ppc' = [at |-> "acted", kind |-> kind]
    /\ lastStart' = <<clock>>
    /\ UNCHANGED <<lastActionTime, lastDone>>
    /\ UNCHANGED <<now, ticks, storeVars, runVars, tallyVars, histVars, ret>>
    /\ UNCHANGED quotaVars
    /\ UNCHANGED attemptVars
    /\ UNCHANGED renderVars
    /\ UNCHANGED hostVars
    /\ UNCHANGED <<sessionVars, urlVars>>

\* Time passes between two actions: limit checks, rendering, a send that
\* failed, human-like delays.
PaceIdle ==
    /\ ppc.at = "ready"
    /\ clock + 1 <= MaxClock
    /\ clock' = clock + 1
    /\ UNCHANGED <<lastActionTime, ppc, lastStart, lastDone>>
    /\ UNCHANGED <<now, ticks, storeVars, runVars, tallyVars, histVars, ret>>
    /\ UNCHANGED quotaVars
    /\ UNCHANGED attemptVars
    /\ UNCHANGED renderVars
    /\ UNCHANGED hostVars
    /\ UNCHANGED <<sessionVars, urlVars>>

\* RateLimiter.RecordAction after a successful action: ApplyCooldown, then
\* the increment of the day's counter, which takes its time too.
PaceRecordAction ==
    /\ ppc.at = "acted"
    /\ \E w \in 0..MaxWrite :
        /\ ApplyCooldown(lastActionTime, clock) + w <= MaxClock
        /\ lastActionTime' = ApplyCooldown(lastActionTime, clock)
        /\ clock' = lastActionTime' + w
        /\ lastDone' = <<clock'>>
    /\ Recorded(ppc.kind)
    /\ ppc' = [ppc EXCEPT !.at = "ready"]
    /\ UNCHANGED <<now, ticks, profiles, connection_requests, messages,
                   runVars, tallyVars, performed, repliedSeen, lastStart>>
    /\ UNCHANGED quotaVars
    /\ UNCHANGED attemptVars
    /\ UNCHANGED renderVars
    /\ UNCHANGED hostVars
    /\ UNCHANGED <<sessionVars, urlVars>>

\* RateLimiter.ApplyCooldown called on its own, as SendConnectionRequests
\* does after each contact but the last.
PaceApplyCooldown ==
    /\ ppc.at = "ready"
    /\ ApplyCooldown(lastActionTime, clock) <= MaxClock
    /\ lastActionTime' = ApplyCooldown(lastActionTime, clock)
    /\ clock' = lastActionTime'
    /\ UNCHANGED <<ppc, lastStart, lastDone>>
    /\ UNCHANGED <<now, ticks, storeVars, runVars, tallyVars, histVars, ret>>
    /\ UNCHANGED quotaVars
    /\ UNCHANGED attemptVars
    /\ UNCHANGED renderVars
    /\ UNCHANGED hostVars
    /\ UNCHANGED <<sessionVars, urlVars>>

PaceNext == PaceAct \/ PaceIdle \/ PaceRecordAction \/ PaceApplyCooldown

PaceSpec == Init /\ [][PaceNext]_vars

(***************************************************************************)
(* Discovery and connection over several days: main run with messaging and *)
(* the status check switched off, while days pass between the runs.        *)
(***************************************************************************)
\* Days pass while no run is under way: before a run starts, or after main
\* has finished its stages.
DayPasses ==
    /\ pc \in {"idle", "done"}
    /\ Tick

DiscoveryNext ==
    \/ DayPasses
    \/ Interrupt
    \/ StartRun
    \/ SearchGate
    \/ SearchFailed
    \/ SearchDone
    \/ SearchRecord
    \/ ImmediateEnd
    \/ ImmediateSend
    \/ ImmediateRecord
    \/ BacklogGate
    \/ BacklogEnd
    \/ BacklogSend
    \/ BacklogRecord
    \/ FollowUps

DiscoverySpec == Init /\ [][DiscoveryNext]_vars

(***************************************************************************)
(* The quota methods of storage.Database called by several goroutines on   *)
(* one handle, statement by statement, while days pass.  An increment is   *)
(* one upsert statement; GetTodayRateLimit is a SELECT and, when that      *)
(* finds no row, an INSERT.                                                *)
(***************************************************************************)
\* IncrementConnectionCount / IncrementMessageCount / IncrementSearchCount:
\* a single INSERT ... ON CONFLICT(date) DO UPDATE SET count = count + 1.
QuotaIncrement(c) ==
    /\ callers[c].pc = "idle"
    /\ \E taskType \in TaskTypes, dbOk \in ExecOutcomes :
        /\ recorded[TaskConnection] + recorded[TaskMessage]
               + recorded[TaskSearch] < MaxActions
        /\ rate_limits' = RecordAction(rate_limits, taskType, now, dbOk)
        /\ recorded' = IF dbOk THEN [recorded EXCEPT ![taskType] = @ + 1]
                               ELSE recorded
        /\ callers' = [callers EXCEPT ![c].ret = IF dbOk THEN "nil" ELSE "error"]
    /\ UNCHANGED <<now, ticks, profiles, connection_requests, messages,
                   runVars, tallyVars, performed, repliedSeen, ret, paceVars>>
    /\ UNCHANGED attemptVars
    /\ UNCHANGED renderVars
    /\ UNCHANGED hostVars
    /\ UNCHANGED <<sessionVars, urlVars>>

\* GetTodayRateLimit, first statement: SELECT ... WHERE date = today.  A row
\* found is returned at once; otherwise the caller goes on to insert.
QuotaSelect(c) ==
    /\ callers[c].pc = "idle"
    /\ callers' = [callers EXCEPT ![c] =
           IF now \in DOMAIN rate_limits
           THEN [pc |-> "idle", today |-> 0, ret |-> "nil",
                 limit |-> rate_limits[now]]
           ELSE [pc |-> "selected", today |-> now, ret |-> "none",
                 limit |-> ZeroCounts]]
    /\ callers' # callers
    /\ UNCHANGED <<now, ticks, storeVars, runVars, tallyVars, histVars, ret,
                   paceVars>>
    /\ UNCHANGED attemptVars
    /\ UNCHANGED renderVars
    /\ UNCHANGED hostVars
    /\ UNCHANGED <<sessionVars, urlVars>>

\* GetTodayRateLimit, second statement: INSERT (today, 0, 0, 0).  date is the
\* primary key: the insert fails when a row of that date exists by now;
\* when it succeeds the caller returns a fresh all-zero record.
QuotaInsert(c) ==
    /\ callers[c].pc = "selected"
    /\ IF callers[c].today \in DOMAIN rate_limits
       THEN /\ callers' = [callers EXCEPT ![c].pc = "idle", ![c].today = 0,
                                           ![c].ret = "constraint"]
            /\ UNCHANGED rate_limits
       ELSE /\ rate_limits' = GetTodayRateLimitStore(rate_limits, callers[c].today)
            /\ callers' = [callers EXCEPT ![c].pc = "idle", ![c].today = 0,
                                           ![c].ret = "nil",
                                           ![c].limit = ZeroCounts]
    /\ UNCHANGED <<now, ticks, profiles, connection_requests, messages,
                   runVars, tallyVars, histVars, ret, paceVars>>
    /\ UNCHANGED attemptVars
    /\ UNCHANGED renderVars
    /\ UNCHANGED hostVars
    /\ UNCHANGED <<sessionVars, urlVars>>

\* Midnight passes; calls under way keep the date they computed.
QuotaTick ==
    /\ ticks < MaxTicks
    /\ now' = now + 1
    /\ ticks' = ticks + 1
    /\ recorded' = NoCounts
    /\ UNCHANGED <<storeVars, runVars, tallyVars, performed, repliedSeen, ret,
                   paceVars, quotaVars>>
    /\ UNCHANGED attemptVars
    /\ UNCHANGED renderVars
    /\ UNCHANGED hostVars
    /\ UNCHANGED <<sessionVars, urlVars>>

QuotaNext ==
    \/ QuotaTick
    \/ \E c \in Callers : QuotaIncrement(c)
    \/ \E c \in Callers : QuotaSelect(c)
    \/ \E c \in Callers : QuotaInsert(c)

QuotaSpec == Init /\ [][QuotaNext]_vars

(***************************************************************************)
(* The renderer called directly: one call of RenderTemplate, RenderSubject *)
(* or cleanupWhitespace on a template and variables drawn from bounded     *)
(* sets.                                                                   *)
(***************************************************************************)
\* Every text of letters, spaces and newlines up to a length.
TextsUpTo(n) == UNION {[1..k -> {"a", " ", "\n"}] : k \in 0..n}

Field(name) == <<".">> \o name

\* What generated template bodies are made of: text, the delimiters, fields
\* that exist, a field that does not, and a name without its dot.
Pieces ==
    {<<"a">>, <<" ">>, <<"\n">>, LeftDelim, RightDelim,
     Field(FieldNames.FirstName), Field(FieldNames.Title), Field(<<"N", "o">>),
     FieldNames.FirstName}

RECURSIVE Concats(_)
Concats(n) ==
    IF n = 0 THEN {<<>>}
    ELSE LET shorter == Concats(n - 1)
         IN shorter \cup {p \o t : p \in Pieces, t \in shorter}

\* One placeholder with text before and after it.
Framed ==
    {pre \o LeftDelim \o Field(FieldNames[f]) \o RightDelim \o post :
        pre \in TextsUpTo(2), post \in TextsUpTo(2), f \in {"FirstName", "Title"}}

\* The template of the rendering example, written with and without the dot
\* that marks a field, and what it is expected to yield.
ExampleBody ==
    <<"H", "i", " ", "{", "{", ".", "F", "i", "r", "s", "t", "N", 
     "a", "m", "e", "}", "}", ",", " ", "I", " ", "n", "o", "t", 
     "i", "c", "e", "d", " ", "y", "o", "u", "'", "r", "e", " ", 
     "a", " ", "{", "{", ".", "T", "i", "t", "l", "e", "}", "}", 
     " ", "a", "t", " ", "{", "{", ".", "C", "o", "m", "p", "a", 
     "n", "y", "}", "}", ".">>
ExampleBodyNoDot ==
    <<"H", "i", " ", "{", "{", "F", "i", "r", "s", "t", "N", "a", 
     "m", "e", "}", "}", ",", " ", "I", " ", "n", "o", "t", "i", 
     "c", "e", "d", " ", "y", "o", "u", "'", "r", "e", " ", "a", 
     " ", "{", "{", "T", "i", "t", "l", "e", "}", "}", " ", "a", 
     "t", " ", "{", "{", "C", "o", "m", "p", "a", "n", "y", "}", 
     "}", ".">>
ExampleText ==
    <<"H", "i", " ", "A", "d", "a", ",", " ", "I", " ", "n", "o", 
     "t", "i", "c", "e", "d", " ", "y", "o", "u", "'", "r", "e", 
     " ", "a", " ", "E", "n", "g", "i", "n", "e", "e", "r", " ", 
     "a", "t", " ", "A", "c", "m", "e", ".">>
ExampleVariables ==
    [TemplateVariables EXCEPT !.FirstName = <<"A", "d", "a">>,
                              !.Title = <<"E", "n", "g", "i", "n", "e", "e", "r">>,
                              !.Company = <<"A", "c", "m", "e">>]

\* Texts around the subject ceiling: plain, behind a space, and behind an
\* action that is never closed.
LongTexts ==
    LET run(n) == Repeat(<<"A">>, n)
    IN {run(SubjectMaxLength), run(SubjectMaxLength + 1), run(SubjectMaxLength + 50),
        <<" ">> \o run(SubjectMaxLength + 50),
        LeftDelim \o run(SubjectMaxLength + 50)}

Bodies ==
    TextsUpTo(MaxTextLen) \cup Concats(MaxPieces) \cup Framed \cup LongTexts
    \cup {ExampleBody, ExampleBodyNoDot}

VariableSets ==
    {TemplateVariables,
     ExampleVariables,
     [TemplateVariables EXCEPT !.FullName = <<"A", "d", "a", " ", "L">>],
     [TemplateVariables EXCEPT !.FirstName = <<"A", "d", "a", " ", " ", "L">>, !.Title = <<" ">>],
     [TemplateVariables EXCEPT !.FirstName = <<"{", "{", "a">>]}

MaxLengths == 0..ShortMaxLength \cup {ConnectionNoteMaxLength}

RenderInit ==
    /\ now = 0
    /\ ticks = 0
    /\ profiles = <<>>
    /\ connection_requests = <<>>
    /\ messages = <<>>
    /\ rate_limits = <<>>
    /\ pc = "idle"
    /\ queue = <<>>
    /\ count = 0
    /\ templateID = "msg_introduction"
    /\ current = "none"
    /\ stats = ZeroStats
    /\ searchStats = ZeroSearchStats
    /\ recorded = NoCounts
    /\ performed = [k \in OutreachTypes |-> 0]
    /\ repliedSeen = {}
    /\ ret = "nil"
    /\ NewRateLimiter
    /\ callers = [c \in Callers |-> IdleCaller]
    /\ attempted = {}
    /\ tmplDef \in [Body : Bodies, MaxLength : MaxLengths]
    /\ tmplVars \in VariableSets
    /\ result = NoResult
    /\ HostIdle

RenderTemplateCall ==
    /\ result = NoResult
    /\ result' = [op |-> "RenderTemplate",
                  text |-> RenderTemplate(tmplDef, tmplVars).text,
                  err |-> RenderTemplate(tmplDef, tmplVars).err]
    /\ UNCHANGED <<now, ticks, storeVars, runVars, tallyVars, histVars, ret,
                   paceVars, quotaVars, attemptVars, tmplDef, tmplVars>>
    /\ UNCHANGED hostVars
    /\ UNCHANGED <<sessionVars, urlVars>>

RenderSubjectCall ==
    /\ result = NoResult
    /\ result' = [op |-> "RenderSubject",
                  text |-> RenderSubject(tmplDef.Body, tmplVars),
                  err |-> NilError]
    /\ UNCHANGED <<now, ticks, storeVars, runVars, tallyVars, histVars, ret,
                   paceVars, quotaVars, attemptVars, tmplDef, tmplVars>>
    /\ UNCHANGED hostVars
    /\ UNCHANGED <<sessionVars, urlVars>>

CleanupWhitespaceCall ==
    /\ result = NoResult
    /\ result' = [op |-> "cleanupWhitespace",
                  text |-> cleanupWhitespace(tmplDef.Body),
                  err |-> NilError]
    /\ UNCHANGED <<now, ticks, storeVars, runVars, tallyVars, histVars, ret,
                   paceVars, quotaVars, attemptVars, tmplDef, tmplVars>>
    /\ UNCHANGED hostVars
    /\ UNCHANGED <<sessionVars, urlVars>>

TruncateMessageCall ==
    /\ result = NoResult
    /\ result' = [op |-> "TruncateMessage",
                  text |-> TruncateMessage(tmplDef.Body, tmplDef.MaxLength).text,
                  err |-> TruncateMessage(tmplDef.Body, tmplDef.MaxLength).err]
    /\ UNCHANGED <<now, ticks, storeVars, runVars, tallyVars, histVars, ret,
                   paceVars, quotaVars, attemptVars, tmplDef, tmplVars>>
    /\ UNCHANGED hostVars
    /\ UNCHANGED <<sessionVars, urlVars>>

RenderNext ==
    \/ RenderTemplateCall
    \/ RenderSubjectCall
    \/ CleanupWhitespaceCall
    \/ TruncateMessageCall

RenderSpec == RenderInit /\ [][RenderNext]_vars

(***************************************************************************)
(* The batch senders called directly: SendConnectionRequests on a batch of *)
(* contacts, or SendMessages on a batch of messages, each with its tally.  *)
(***************************************************************************)
\* MessagingStats{}: the tally of SendMessages.
ZeroMessagingStats ==
    [totalAttempted |-> 0, successful |-> 0, failed |-> 0, errors |-> 0]

MessagesInit ==
    /\ now = 0
    /\ ticks = 0
    /\ profiles = SearchPeople(<<>>, CHOOSE q \in Perms(BatchContacts) : TRUE,
                               BatchContacts, DaysBack, 0).profiles
    /\ connection_requests = <<>>
    /\ messages = <<>>
    /\ \E m0 \in 0..MaxMessagesPerDay :
        rate_limits = [d \in {0} |-> [ZeroCounts EXCEPT !.message_count = m0]]
    /\ pc = "messages"
    /\ queue \in Batches
    /\ count = 0
    /\ templateID \in Templates
    /\ current = "none"
    /\ stats = ZeroMessagingStats
    /\ searchStats = ZeroSearchStats
    /\ recorded = NoCounts
    /\ performed = [k \in OutreachTypes |-> 0]
    /\ repliedSeen = {}
    /\ ret = "nil"
    /\ NewRateLimiter
    /\ callers = [c \in Callers |-> IdleCaller]
    /\ attempted = {}
    /\ tmplDef = NoTemplate
    /\ tmplVars = TemplateVariables
    /\ result = NoResult
    /\ HostIdle

\* One pass of the loop of SendMessages up to the send: the attempt is
\* counted, then the quota is checked, then the message is sent.
MessagesSend ==
    /\ pc = "messages"
    /\ queue # <<>>
    /\ Checked(TaskMessage)
    /\ IF ret' # "nil"
       THEN /\ stats' = [stats EXCEPT !.totalAttempted = @ + 1, !.errors = @ + 1]
            /\ pc' = "done"
            /\ UNCHANGED <<messages, current, performed, queue, attempted>>
       ELSE \E outcome \in MessageOutcomes, dbOk \in ExecOutcomes :
            /\ outcome = "sent" => Len(messages) < MaxMessageRows
            /\ outcome = "sent" => performed[TaskMessage] < MaxActions
            /\ performed' = IF outcome = "sent"
                             THEN [performed EXCEPT ![TaskMessage] = @ + 1]
                             ELSE performed
            /\ messages' =
                   SendMessage(messages, Head(queue), templateID, now, outcome, dbOk)
            /\ stats' = IF outcome = "sent"
                        THEN [stats EXCEPT !.totalAttempted = @ + 1,
                                           !.successful = @ + 1]
                        ELSE [stats EXCEPT !.totalAttempted = @ + 1,
                                           !.failed = @ + 1, !.errors = @ + 1]
            /\ queue' = Tail(queue)
            /\ attempted' = attempted \cup {Head(queue)}
            /\ IF outcome = "sent"
               THEN /\ pc' = "messages_record"
                    /\ current' = Head(queue)
               ELSE /\ pc' = "messages"
                    /\ UNCHANGED current
    /\ UNCHANGED <<now, ticks, profiles, connection_requests, count, templateID,
                   recorded, repliedSeen, searchStats>>
    /\ UNCHANGED paceVars
    /\ UNCHANGED quotaVars
    /\ UNCHANGED renderVars
    /\ UNCHANGED hostVars
    /\ UNCHANGED <<sessionVars, urlVars>>

MessagesRecord ==
    /\ pc = "messages_record"
    /\ Recorded(TaskMessage)
    /\ current' = "none"
    /\ pc' = "messages"
    /\ UNCHANGED <<now, ticks, profiles, connection_requests, messages,
                   queue, count, templateID, performed, repliedSeen>>
    /\ UNCHANGED tallyVars
    /\ UNCHANGED paceVars
    /\ UNCHANGED quotaVars
    /\ UNCHANGED attemptVars
    /\ UNCHANGED renderVars
    /\ UNCHANGED hostVars
    /\ UNCHANGED <<sessionVars, urlVars>>

MessagesEnd ==
    /\ pc = "messages"
    /\ queue = <<>>
    /\ pc' = "done"
    /\ UNCHANGED <<now, ticks, storeVars, queue, count, templateID, current,
                   histVars, ret>>
    /\ UNCHANGED tallyVars
    /\ UNCHANGED paceVars
    /\ UNCHANGED quotaVars
    /\ UNCHANGED attemptVars
    /\ UNCHANGED renderVars
    /\ UNCHANGED hostVars
    /\ UNCHANGED <<sessionVars, urlVars>>

BatchInit == ConnectInit \/ MessagesInit

BatchNext ==
    \/ BacklogSend
    \/ BacklogRecord
    \/ BacklogEnd
    \/ MessagesSend
    \/ MessagesRecord
    \/ MessagesEnd

BatchSpec == BatchInit /\ [][BatchNext]_vars

(***************************************************************************)
(* The scheduler called directly: one call at a time of the week and with  *)
(* an environment drawn from bounded sets.                                 *)
(***************************************************************************)
\* Values of an hour setting: unset, hours, hours out of range, not numbers.
HourValues ==
    {<<>>, <<"0">>, <<"9">>, <<"1", "7">>, <<"2", "0">>, <<"2", "3">>,
     <<"2", "4">>, <<"-", "1">>, <<"x">>}

Environments ==
    [ACTIVE_HOURS_START : HourValues, ACTIVE_HOURS_END : HourValues,
     WEEKDAYS_ONLY : {"", "true", "false"}]

ScheduleInit ==
    /\ now = 0
    /\ ticks = 0
    /\ profiles = <<>>
    /\ connection_requests = <<>>
    /\ messages = <<>>
    /\ rate_limits = <<>>
    /\ pc = "idle"
    /\ queue = <<>>
    /\ count = 0
    /\ templateID = "msg_introduction"
    /\ current = "none"
    /\ stats = ZeroStats
    /\ searchStats = ZeroSearchStats
    /\ recorded = NoCounts
    /\ performed = [k \in OutreachTypes |-> 0]
    /\ repliedSeen = {}
    /\ ret = "nil"
    /\ NewRateLimiter
    /\ callers = [c \in Callers |-> IdleCaller]
    /\ attempted = {}
    /\ tmplDef = NoTemplate
    /\ tmplVars = TemplateVariables
    /\ result = NoResult
    /\ env \in Environments
    /\ wall \in 0..(MaxDays * HoursPerDay * TicksPerHour - 1)
    /\ sched = NoSchedule
    /\ stateFile = NoState /\ probe = NoProbe
    /\ session = NoSession
    /\ savedAt = -1

GetDefaultScheduleCall ==
    /\ sched = NoSchedule
    /\ sched' = [NoSchedule EXCEPT !.op = "GetDefaultSchedule",
                                   !.config = GetDefaultSchedule(env)]
    /\ UNCHANGED <<now, ticks, storeVars, runVars, tallyVars, histVars, ret,
                   paceVars, quotaVars, attemptVars, renderVars, env, wall>>
    /\ UNCHANGED <<sessionVars, urlVars>>

\* IsActiveHours: IsActiveHoursWithConfig on the default schedule.
IsActiveHoursCall ==
    /\ sched = NoSchedule
    /\ sched' = [NoSchedule EXCEPT
                    !.op = "IsActiveHours",
                    !.config = GetDefaultSchedule(env),
                    !.active = IsActiveHoursWithConfig(wall, GetDefaultSchedule(env))]
    /\ UNCHANGED <<now, ticks, storeVars, runVars, tallyVars, histVars, ret,
                   paceVars, quotaVars, attemptVars, renderVars, env, wall>>
    /\ UNCHANGED <<sessionVars, urlVars>>

\* CalculateNextActiveTime(time.Now(), GetDefaultSchedule()), as
\* WaitForActiveHours calls it when the hours are not active.
CalculateNextActiveTimeCall ==
    /\ sched = NoSchedule
    /\ ~ IsActiveHoursWithConfig(wall, GetDefaultSchedule(env))
    /\ sched' = [NoSchedule EXCEPT
                    !.op = "CalculateNextActiveTime",
                    !.config = GetDefaultSchedule(env),
                    !.next = CalculateNextActiveTime(wall, GetDefaultSchedule(env))]
    /\ UNCHANGED <<now, ticks, storeVars, runVars, tallyVars, histVars, ret,
                   paceVars, quotaVars, attemptVars, renderVars, env, wall>>
    /\ UNCHANGED <<sessionVars, urlVars>>

\* GetTimeUntilNextActive: GetTimeUntilNextActiveWithConfig on the default
\* schedule.
GetTimeUntilNextActiveCall ==
    /\ sched = NoSchedule
    /\ sched' = [NoSchedule EXCEPT
                    !.op = "GetTimeUntilNextActive",
                    !.config = GetDefaultSchedule(env),
                    !.active = IsActiveHoursWithConfig(wall, GetDefaultSchedule(env)),
                    !.until = GetTimeUntilNextActiveWithConfig(wall, GetDefaultSchedule(env))]
    /\ UNCHANGED <<now, ticks, storeVars, runVars, tallyVars, histVars, ret,
                   paceVars, quotaVars, attemptVars, renderVars, env, wall>>
    /\ UNCHANGED <<sessionVars, urlVars>>

ScheduleNext ==
    \/ GetDefaultScheduleCall
    \/ IsActiveHoursCall
    \/ CalculateNextActiveTimeCall
    \/ GetTimeUntilNextActiveCall

ScheduleSpec == ScheduleInit /\ [][ScheduleNext]_vars

(***************************************************************************)
(* Runs of main up to the end of the login step, with days passing between *)
(* runs.  Writing data/state.json succeeds.                                *)
(***************************************************************************)
SessionFrame ==
    UNCHANGED <<ticks, storeVars, runVars, tallyVars, histVars, ret,
                paceVars, quotaVars, attemptVars, renderVars, hostVars, urlVars>>

\* Step 4 of main: load the state and decide whether login is needed.
SessionCheck ==
    /\ session.pc = "idle"
    /\ now <= MaxSessionDay
    /\ session' = [pc |-> IF IsSessionValid(stateFile, now) THEN "feed" ELSE "login",
                   sessionValid |-> IsSessionValid(stateFile, now)]
    /\ savedAt' = -1
    /\ UNCHANGED <<now, stateFile>>
    /\ SessionFrame

\* Step 6 with a valid session: the feed opens, or the platform has ended
\* the session and the login page is opened.
SessionOpenFeed ==
    /\ session.pc = "feed"
    /\ \E loggedIn \in BOOLEAN :
        session' = IF loggedIn
                   THEN [session EXCEPT !.pc = "run"]
                   ELSE [pc |-> "login", sessionValid |-> FALSE]
    /\ UNCHANGED <<now, stateFile, savedAt>>
    /\ SessionFrame

\* Step 6 without a valid session: login; a failed login invalidates the
\* session and ends the run, a successful one saves the state.
SessionLogin ==
    /\ session.pc = "login"
    /\ \E ok \in BOOLEAN :
        IF ok
        THEN /\ stateFile' = SaveState(stateFile, TRUE, now)
             /\ savedAt' = now
             /\ session' = [session EXCEPT !.pc = "run"]
        ELSE /\ stateFile' = InvalidateSession(stateFile, now)
             /\ session' = NoSession
             /\ UNCHANGED savedAt
    /\ UNCHANGED now
    /\ SessionFrame

\* The rest of the run; the process ends.
SessionRunEnds ==
    /\ session.pc = "run"
    /\ session' = NoSession
    /\ UNCHANGED <<now, stateFile, savedAt>>
    /\ SessionFrame

\* Days pass between two runs.
SessionDaysPass ==
    /\ session.pc = "idle"
    /\ now <= MaxSessionDay
    /\ \E d \in 1..MaxGap : now' = now + d
    /\ UNCHANGED <<stateFile, session, savedAt>>
    /\ SessionFrame

SessionNext ==
    \/ SessionCheck
    \/ SessionOpenFeed
    \/ SessionLogin
    \/ SessionRunEnds
    \/ SessionDaysPass

SessionSpec == Init /\ [][SessionNext]_vars

(***************************************************************************)
(* The URL helpers, each applied to the href of a link of the page.  A     *)
(* link the search parsed is later met again on the connections page and   *)
(* in the inbox, where ExtractProfileID gives the key of the update.       *)
(***************************************************************************)
Host == <<"h", "t", "t", "p", "s", ":", "/", "/", "w", "w", "w", ".", "l", "i", "n", "k", "e", "d", "i", "n", ".", "c", "o", "m">>

LinkPaths ==
    CheckpointPatterns
    \cup {<<"/", "f", "e", "e", "d", "/">>, <<"/", "c", "h", "e", "c", "k", "p", "o", "i", "n", "t">>,
          <<"/", "i", "n", "/", "a", "n", "n">>,
          <<"/", "i", "n", "/", "a", "-", "b">>, <<"/", "i", "n", "/">>}

LinkTails ==
    {<<>>, <<"/">>, <<"?", "x", "=", "1">>, <<"/", "?", "x", "=", "1">>,
     <<"/", "d", "e", "t", "a", "i", "l", "s", "/">>,
     <<"?", "r", "=", "/", "c", "a", "p", "/">>, <<"/", "/">>}

Hrefs == {p \o m \o t : p \in {<<>>, Host}, m \in LinkPaths, t \in LinkTails}

UrlInit ==
    /\ now = 0
    /\ ticks = 0
    /\ profiles = <<>>
    /\ connection_requests = <<>>
    /\ messages = <<>>
    /\ rate_limits = <<>>
    /\ pc = "idle"
    /\ queue = <<>>
    /\ count = 0
    /\ templateID = "msg_introduction"
    /\ current = "none"
    /\ stats = ZeroStats
    /\ searchStats = ZeroSearchStats
    /\ recorded = NoCounts
    /\ performed = [k \in OutreachTypes |-> 0]
    /\ repliedSeen = {}
    /\ ret = "nil"
    /\ NewRateLimiter
    /\ callers = [c \in Callers |-> IdleCaller]
    /\ attempted = {}
    /\ tmplDef = NoTemplate
    /\ tmplVars = TemplateVariables
    /\ result = NoResult
    /\ env = NoEnv
    /\ wall = 0
    /\ sched = NoSchedule
    /\ stateFile = NoState
    /\ probe \in {[NoProbe EXCEPT !.url = u] : u \in Hrefs}
    /\ session = NoSession
    /\ savedAt = -1

UrlFrame ==
    UNCHANGED <<now, ticks, storeVars, runVars, tallyVars, histVars, ret,
                paceVars, quotaVars, attemptVars, renderVars, hostVars,
                sessionVars>>

\* The page the browser is on is tested for a checkpoint.
IsLinkedInCheckpointCall ==
    /\ probe.op = "none"
    /\ probe' = [probe EXCEPT !.op = "checkpoint",
                              !.checkpoint = IsLinkedInCheckpoint(probe.url)]
    /\ UrlFrame

\* The search parses the result that holds the link.
ParseProfileCall ==
    /\ probe.op = "none"
    /\ LET parsed == parseProfileFromContainer(probe.url)
       IN probe' = [probe EXCEPT !.op = "parsed",
                                 !.ProfileID = parsed.ProfileID,
                                 !.err = parsed.err]
    /\ UrlFrame

\* CheckRecentConnections and CheckInboxForReplies derive the key of their
\* update from the link, of a contact the search has stored or of any other.
ExtractProfileIDCall ==
    /\ probe.op \in {"none", "parsed"}
    /\ probe.err = NilError
    /\ probe' = [probe EXCEPT !.op = IF probe.op = "parsed" THEN "met" ELSE "key",
                              !.key = ExtractProfileID(probe.url)]
    /\ UrlFrame

UrlNext ==
    \/ IsLinkedInCheckpointCall
    \/ ParseProfileCall
    \/ ExtractProfileIDCall

UrlSpec == UrlInit /\ [][UrlNext]_vars

(***************************************************************************)
(* SendConnectionRequests and CheckAndUpdateConnectionStatuses on the      *)
(* clock: every call of the Actuator and of the store returns after some   *)
(* time, and the RateLimiter sleeps where the code calls it.               *)
(***************************************************************************)
PacedFrame ==
    /\ UNCHANGED <<now, ticks, profiles, messages, count, templateID,
                   repliedSeen, searchStats, ppc>>
    /\ UNCHANGED quotaVars
    /\ UNCHANGED renderVars
    /\ UNCHANGED hostVars
    /\ UNCHANGED <<sessionVars, urlVars>>

\* One pass of the loop of SendConnectionRequests up to the result of
\* SendConnectionRequest; the limit check may break out of the loop.
PacedSend ==
    /\ pc = "backlog"
    /\ queue # <<>>
    /\ rate_limits' = GetTodayRateLimitStore(rate_limits, now)
    /\ IF CheckDailyLimit(rate_limits, TaskConnection, now) # "nil"
       THEN /\ ret' = CheckDailyLimit(rate_limits, TaskConnection, now)
            /\ stats' = [stats EXCEPT !.totalAttempted = @ + 1, !.errors = @ + 1]
            /\ pc' = "followups"
            /\ UNCHANGED <<connection_requests, current, performed, queue,
                           attempted, clock, lastStart>>
       ELSE \E outcome \in ConnectOutcomes, dbOk \in ExecOutcomes, url \in PageURLs,
               d \in 0..MaxDuration :
            /\ (outcome = "checkpoint") <=> IsLinkedInCheckpoint(url)
            /\ performed' = IF outcome = "sent"
                             THEN [performed EXCEPT ![TaskConnection] = @ + 1]
                             ELSE performed
            /\ connection_requests' =
                   SendConnectionRequest(connection_requests, Head(queue), now, outcome, dbOk)
            /\ ret' = IF outcome = "sent" THEN "nil" ELSE outcome
            /\ stats' = Tally([stats EXCEPT !.totalAttempted = @ + 1], outcome)
            /\ queue' = Tail(queue)
            /\ attempted' = attempted \cup {Head(queue)}
            /\ lastStart' = <<clock>>
            /\ clock' = clock + d
            /\ IF outcome = "sent"
               THEN /\ pc' = "backlog_record"
                    /\ current' = Head(queue)
               ELSE /\ pc' = IF Tail(queue) # <<>> THEN "backlog_cooldown" ELSE "backlog"
                    /\ UNCHANGED current
    /\ UNCHANGED <<recorded, lastActionTime, lastDone>>
    /\ PacedFrame

\* rateLimiter.RecordAction(TaskConnection): ApplyCooldown, then the
\* increment, which takes its time.
PacedRecord ==
    /\ pc = "backlog_record"
    /\ \E w \in 0..MaxWrite :
        /\ lastActionTime' = ApplyCooldown(lastActionTime, clock)
        /\ clock' = lastActionTime' + w
        /\ lastDone' = <<clock'>>
    /\ Recorded(TaskConnection)
    /\ current' = "none"
    /\ pc' = IF queue # <<>> THEN "backlog_cooldown" ELSE "backlog"
    /\ UNCHANGED <<connection_requests, queue, stats, performed, attempted,
                   lastStart>>
    /\ PacedFrame

\* rateLimiter.ApplyCooldown() after every request but the last.
PacedCooldown ==
    /\ pc = "backlog_cooldown"
    /\ lastActionTime' = ApplyCooldown(lastActionTime, clock)
    /\ clock' = lastActionTime'
    /\ pc' = "backlog"
    /\ UNCHANGED <<connection_requests, rate_limits, queue, current, stats,
                   recorded, performed, attempted, ret, lastStart, lastDone>>
    /\ PacedFrame

\* The loop has run through the requests.
PacedEnd ==
    /\ pc = "backlog"
    /\ queue = <<>>
    /\ pc' = "followups"
    /\ UNCHANGED <<connection_requests, rate_limits, queue, current, stats,
                   recorded, performed, attempted, ret, clock, lastActionTime,
                   lastStart, lastDone>>
    /\ PacedFrame

\* CheckAndUpdateConnectionStatuses up to its loop: the page fails to load
\* or the selection fails, or the pending requests are listed.
PacedStatusStart ==
    /\ pc = "followups"
    /\ \E ok \in BOOLEAN :
        IF ok
        THEN /\ \E pending \in GetPendingConnections(connection_requests) :
                    queue' = [n \in DOMAIN pending |-> pending[n].profile_id]
             /\ pc' = "status_loop"
             /\ ret' = "nil"
        ELSE /\ queue' = <<>>
             /\ pc' = "done"
             /\ ret' = "error"
    /\ clock' = clock + 1
    /\ UNCHANGED <<connection_requests, rate_limits, current, stats, recorded,
                   performed, attempted, lastActionTime, lastStart, lastDone>>
    /\ PacedFrame

\* One pass of its loop: the profile page is opened and, where it shows the
\* contact as connected, the status is updated; then the delay.
PacedStatusStep ==
    /\ pc = "status_loop"
    /\ queue # <<>>
    /\ \E connected \in BOOLEAN :
        connection_requests' =
            IF connected
            THEN UpdateConnectionStatus(connection_requests, Head(queue), "accepted")
            ELSE connection_requests
    /\ queue' = Tail(queue)
    /\ clock' = clock + 1
    /\ UNCHANGED <<rate_limits, pc, current, stats, recorded, performed,
                   attempted, ret, lastActionTime, lastStart, lastDone>>
    /\ PacedFrame

PacedStatusEnd ==
    /\ pc = "status_loop"
    /\ queue = <<>>
    /\ pc' = "done"
    /\ ret' = "polled"
    /\ UNCHANGED <<connection_requests, rate_limits, queue, current, stats,
                   recorded, performed, attempted, clock, lastActionTime,
                   lastStart, lastDone>>
    /\ PacedFrame

PacedNext ==
    \/ PacedSend
    \/ PacedRecord
    \/ PacedCooldown
    \/ PacedEnd
    \/ PacedStatusStart
    \/ PacedStatusStep
    \/ PacedStatusEnd

\* Every call returns: a step that can be taken is taken.
PacedSpec == ConnectInit /\ [][PacedNext]_vars /\ WF_vars(PacedNext)

(***************************************************************************)
(* Properties.                                                             *)
(***************************************************************************)
\* Rows of connection_requests that belong to id and are not withdrawn.
LiveRequests(id) ==
    {i \in DOMAIN connection_requests :
        /\ connection_requests[i].profile_id = id
        /\ connection_requests[i].status # "withdrawn"}

\* C1 (RepoSpec): every contact has at most one connection_requests row whose status is
\* not 'withdrawn': a second SaveConnectionRequest for a contact that has a
\* request inserts nothing.
C1_OneLiveRequestPerContact ==
    \A id \in Contacts : Cardinality(LiveRequests(id)) <= 1

\* Rows of messages for one contact and one template.
MessagesOf(id, template) ==
    {i \in DOMAIN messages :
        /\ messages[i].connection_id = id
        /\ messages[i].template_name = template}

\* C2 (RepoSpec): for every contact and template at most one messages row exists: a
\* second SaveMessage with the same contact and template stores nothing.
C2_OneMessagePerTemplate ==
    \A id \in Contacts, template \in Templates :
        Cardinality(MessagesOf(id, template)) <= 1

C4_SentWithinCeiling ==
    \A k \in OutreachTypes : performed[k] <= Ceiling(k)

\* C5 (RepoSpec): GetAcceptedConnectionProfiles returns no contact that has a
\* request with status pending or rejected, and none whose has_replied is set.
C5_SelectedNotPendingRejectedReplied ==
    ret = "selected" =>
        \A n \in DOMAIN queue : \A i \in DOMAIN connection_requests :
            connection_requests[i].profile_id = queue[n] =>
                /\ connection_requests[i].status \notin {"pending", "rejected"}
                /\ ~connection_requests[i].has_replied

\* C6 (RepoSpec): GetAcceptedConnectionProfiles returns only contacts that
\* have no messages row at all, whatever the age of the message.
C6_SelectedNeverMessaged ==
    ret = "selected" =>
        \A n \in DOMAIN queue : \A i \in DOMAIN messages :
            messages[i].connection_id # queue[n]

\* C7 (Spec): a message is sent and recorded only for a contact that has a
\* request with status 'accepted' when it is sent: the contacts the message
\* loop ranges over, the one just messaged and every contact of a messages row
\* have one.
C7_MessagedHaveAccepted ==
    /\ pc = "msg" =>
           \A n \in DOMAIN queue : HasAcceptedRequest(connection_requests, queue[n])
    /\ pc = "msg_record" => HasAcceptedRequest(connection_requests, current)
    /\ \A i \in DOMAIN messages :
           HasAcceptedRequest(connection_requests, messages[i].connection_id)

\* A message has just been sent and stored for one contact while another
\* contact has a pending request and no message.
C7_MessageSentOtherPending ==
    /\ pc = "msg_record"
    /\ \E i \in DOMAIN messages : messages[i].connection_id = current
    /\ \E j \in DOMAIN connection_requests :
           /\ connection_requests[j].profile_id # current
           /\ connection_requests[j].status = "pending"
           /\ \A i \in DOMAIN messages :
                  messages[i].connection_id # connection_requests[j].profile_id

\* C8 (Spec): once UpdateConnectionReplyStatus(id, true) has been called for a
\* contact, the message stage never selects that contact, in this run or a
\* later one.
C8_RepliedNeverSelected ==
    pc = "msg" => \A n \in DOMAIN queue : queue[n] \notin repliedSeen

\* C9 (RepoSpec): UpdateConnectionStatus changes nothing when the profile has
\* no pending request, and no step changes the status of a row that is not
\* pending.
C9_OnlyPendingChanges ==
    /\ [](\A id \in Contacts, status \in Statuses :
            (\A i \in DOMAIN connection_requests :
                connection_requests[i].profile_id = id
                    => connection_requests[i].status # "pending")
            => UpdateConnectionStatus(connection_requests, id, status)
                   = connection_requests)
    /\ [][\A i \in DOMAIN connection_requests :
            connection_requests[i].status # "pending" =>
                /\ i \in DOMAIN connection_requests'
                /\ connection_requests'[i].status = connection_requests[i].status]_vars

\* Two requests of one contact have left 'pending' for different statuses: the
\* update that set the later one was called while the other was not pending.
C9_TwoTerminalStatuses ==
    \E i, j \in DOMAIN connection_requests :
        /\ connection_requests[i].profile_id = connection_requests[j].profile_id
        /\ connection_requests[i].status = "rejected"
        /\ connection_requests[j].status = "accepted"

\* C10 (RepoSpec): a status check run again with the same answers of the page
\* changes no status, for CheckAndUpdateConnectionStatuses and for
\* CheckRecentConnections, and it reads only requests that are pending.
C10_StatusCheckIdempotent ==
    /\ \A connected \in SUBSET Contacts :
           \A once \in CheckAndUpdateConnectionStatuses(connection_requests, connected) :
               CheckAndUpdateConnectionStatuses(once, connected) = {once}
    /\ \A cards \in PageLists :
           LET once == CheckRecentConnections(connection_requests, cards)
           IN CheckRecentConnections(once, cards) = once
    /\ \A pending \in GetPendingConnections(connection_requests) :
           \A n \in DOMAIN pending : pending[n].status = "pending"

\* The status check has run and left one request accepted while another
\* request stays pending.
C10_PolledSomeAccepted ==
    /\ ret = "polled"
    /\ \E i, j \in DOMAIN connection_requests :
           /\ connection_requests[i].status = "accepted"
           /\ connection_requests[j].status = "pending"

\* C11: once a checkpoint/verification page has been signalled in any stage,
\* the whole run is over: no further contact is processed and no later stage
\* is started, so the run is at its end whenever the last result is the
\* checkpoint error.
C11_CheckpointEndsRun ==
    ret = "checkpoint" => pc \in {"done", "idle"}

\* Today's connection counter in the store.
ConnectionCount == CountOf(GetTodayRateLimit(rate_limits, now), TaskConnection)

\* The counter as it stood when the batch began: every recorded send added one.
StartCount == ConnectionCount - recorded[TaskConnection]

\* A batch in which no contact was already connected or pending, no send
\* failed and every send was recorded.
CleanBatch ==
    /\ stats.failed = 0 /\ stats.alreadyConnected = 0 /\ stats.pending = 0
    /\ recorded[TaskConnection] = stats.successful

SkipOutcomes ==
    {"already connected", "connection pending", "connect button not found"}

\* C13: a contact found already connected, already pending or without any
\* Connect control leaves the Failed tally as it was, and the batch goes on
\* with the next contact.
C13_SkipsAreNotFailures ==
    [][(pc = "backlog" /\ queue # <<>> /\ ret' \in SkipOutcomes) =>
          (stats'.failed = stats.failed /\ pc' = "backlog")]_vars

\* Today's search and message counters in the store.
SearchCount == CountOf(GetTodayRateLimit(rate_limits, now), TaskSearch)

MessageCount == CountOf(GetTodayRateLimit(rate_limits, now), TaskMessage)

RecordActionStep == ppc.at = "acted" /\ ppc'.at = "ready"

\* C15 as stated: from the return of one RecordAction to the return of the
\* next on the same RateLimiter at least the cooldown elapses.
C15_CompletionsCooldownApart ==
    [][(RecordActionStep /\ lastDone # <<>>) =>
          clock' - lastDone[1] >= Cooldown]_vars

\* C15, amended: RecordAction takes its last-action stamp at least one
\* cooldown after the stamp before it, after waiting out what remained of
\* the cooldown, and only then increments; the call returns at or after
\* its stamp.
C15_StampsCooldownApart ==
    [][RecordActionStep =>
          /\ lastActionTime' >= lastActionTime + Cooldown
          /\ lastActionTime' >= clock
          /\ clock' >= lastActionTime'
          /\ (ret' = "nil") =>
                 CountOf(GetTodayRateLimit(rate_limits', now), ppc.kind) =
                 CountOf(GetTodayRateLimit(rate_limits, now), ppc.kind) + 1
    ]_vars

\* Two connection requests recorded, the second stamped exactly one cooldown
\* after the first: the second call waited.
C15_SecondRecordWaited ==
    /\ recorded[TaskConnection] = 2
    /\ lastActionTime = Cooldown
    /\ lastDone = <<Cooldown>>
    /\ ppc.at = "ready"

\* C16: an outreach action of the Actuator starts at least one cooldown
\* after the outreach action before it started.
C16_ActionsCooldownApart ==
    [][(ppc.at = "ready" /\ ppc'.at = "acted" /\ lastStart # <<>>) =>
          clock - lastStart[1] >= Cooldown]_vars

\* C17: GetPendingConnections returns the pending rows and nothing else,
\* the one sent earliest first.
C17_PendingOldestFirst ==
    \A q \in GetPendingConnections(connection_requests) :
        /\ \A n \in DOMAIN q : q[n].status = "pending"
        /\ Len(q) = Cardinality({i \in DOMAIN connection_requests :
                                    connection_requests[i].status = "pending"})
        /\ \A i, j \in DOMAIN q : i < j => q[i].sent_at <= q[j].sent_at

\* C18: saving a profile whose id is already stored keeps the row, its id
\* and its first-seen time, and changes at most its last-seen time, to the
\* time of the save; no row ever disappears.
C18_UpsertKeepsFirstSeen ==
    [][\A id \in DOMAIN profiles :
          /\ id \in DOMAIN profiles'
          /\ profiles'[id].created_at = profiles[id].created_at
          /\ profiles'[id].visited_at \in {profiles[id].visited_at, now}
          /\ profiles'[id].visited_at >= profiles'[id].created_at]_vars

\* A profile saved again on a later day: last seen after first seen.
C18_SavedAgainLater ==
    \E id \in DOMAIN profiles :
        /\ profiles[id].created_at = 0
        /\ profiles[id].visited_at > 0
        /\ pc = "search_record"

\* The candidates of a pass that count as duplicates: those the store saw
\* within the window before the pass, and those listed earlier in the pass.
DuplicatesIn(ps, results, daysBack, t) ==
    {i \in DOMAIN results :
        \/ IsDuplicateProfile(ps, results[i], daysBack, t)
        \/ \E j \in 1..(i - 1) : results[j] = results[i]}

\* C19: a pass over k candidates of which d are duplicates, with no store
\* error, reports TotalFound = k, Duplicates = d and NewProfiles = k - d,
\* returns the other k - d candidates in order, and leaves the stored row
\* of every candidate that was a duplicate before the pass as it was.
C19_DiscoveryCounts ==
    /\ \A results \in PageLists :
           LET out == SearchPeople(profiles, results, Contacts, DaysBack, now)
               dup == DuplicatesIn(profiles, results, DaysBack, now)
           IN /\ out.totalFound = Len(results)
              /\ out.duplicates = Cardinality(dup)
              /\ out.newProfiles = Len(results) - Cardinality(dup)
              /\ out.errorCount = 0
              /\ Len(out.allResults) = out.newProfiles
              /\ Range(out.allResults) = {results[i] : i \in DOMAIN results \ dup}
              /\ \A i \in DOMAIN results :
                     IsDuplicateProfile(profiles, results[i], DaysBack, now) =>
                         out.profiles[results[i]] = profiles[results[i]]
    /\ (pc = "search_record" /\ searchStats.errorCount = 0) =>
           /\ searchStats.newProfiles = searchStats.totalFound - searchStats.duplicates
           /\ Len(queue) = searchStats.newProfiles

\* A pass over two candidates, one seen within the window and one not.
C19_OneDuplicateOneNew ==
    /\ pc = "search_record"
    /\ searchStats = [totalFound |-> 2, newProfiles |-> 1,
                       duplicates |-> 1, errorCount |-> 0]
    /\ Cardinality(DOMAIN profiles) = 2
    /\ \E id \in DOMAIN profiles : profiles[id].visited_at < now

\* C20: a contact handed to SendConnectionRequest, by the immediate flow
\* or by the batch, has no connection request row yet.
C20_SentOnlyToUnrequested ==
    [][(/\ queue # <<>>
        /\ \/ pc = "immediate" /\ pc' \in {"immediate", "imm_record"}
           \/ pc = "backlog" /\ pc' \in {"backlog", "backlog_record"})
          => ~HasSentConnectionRequest(connection_requests, Head(queue))]_vars

\* The run is about to call CheckDailyLimit for the kind.
CheckStep(k) ==
    \/ k = TaskSearch /\ pc = "search_gate"
    \/ k = TaskConnection /\ pc = "immediate" /\ queue # <<>> /\ count < ImmediateLimit
    \/ k = TaskConnection /\ pc = "backlog" /\ queue # <<>>
    \/ k = TaskMessage /\ pc = "msg_gate"
    \/ k = TaskMessage /\ pc = "msg" /\ queue # <<>>

C22_OneRowPerDateCountsGrow ==
    [][/\ \A d \in DOMAIN rate_limits :
             /\ d \in DOMAIN rate_limits'
             /\ \A k \in TaskTypes :
                    CountOf(rate_limits'[d], k) >= CountOf(rate_limits[d], k)
             /\ d # now => rate_limits'[d] = rate_limits[d]
       /\ \A d \in DOMAIN rate_limits' \ DOMAIN rate_limits :
             /\ d = now \/ \E c \in Callers : callers[c].today = d
             /\ rate_limits'[d] \in
                    {ZeroCounts} \cup {Bump(ZeroCounts, k) : k \in TaskTypes}
       /\ now' # now =>
             /\ rate_limits' = rate_limits
             /\ now' \notin DOMAIN rate_limits'
             /\ GetTodayRateLimit(rate_limits', now') = ZeroCounts
      ]_vars

\* Two dates in the store: yesterday's row with its counts, today's begun.
C22_RolledToNewDate ==
    /\ now = 1
    /\ DOMAIN rate_limits = {0, 1}
    /\ rate_limits[0].connection_count = 2
    /\ rate_limits[1].connection_count = 1

\* C23: however the callers interleave, today's stored count of each kind
\* is the number of increments of that kind that went through today.
C23_NoLostIncrement ==
    \A k \in TaskTypes :
        CountOf(GetTodayRateLimit(rate_limits, now), k) = recorded[k]

\* Two increments went through while another caller's read-or-create, begun
\* when the day had no row, is still under way.
C23_IncrementsDuringReadOrCreate ==
    /\ \E c \in Callers : callers[c].pc = "selected" /\ callers[c].today = now
    /\ \E c \in Callers : callers[c].pc = "idle" /\ callers[c].ret = "nil"
    /\ recorded[TaskConnection] = 2
    /\ ConnectionCount = 2

\* A step in which GetTodayRateLimit returns to caller c.
GetTodayRateLimitReturns(c) ==
    /\ callers'[c] # callers[c]
    /\ callers'[c].pc = "idle"
    /\ recorded' = recorded
    /\ callers[c].pc = "selected" \/ callers'[c].ret = "nil"

\* C24: GetTodayRateLimit, interleaved with another GetTodayRateLimit or
\* with an increment on a day that has no row yet, returns no error and no
\* count below the stored one.
C24_ReadOrCreateAtomic ==
    [][\A c \in Callers : GetTodayRateLimitReturns(c) =>
          /\ callers'[c].ret = "nil"
          /\ \A k \in TaskTypes :
                 CountOf(callers'[c].limit, k) >=
                 CountOf(GetTodayRateLimit(rate_limits', now), k)]_vars

\* The stage of the run a position belongs to, in the order main() runs them:
\* search, connection requests (right after the search, then the backlog),
\* follow-ups (status check), messaging.
StageOf(p) ==
    CASE p \in {"search_gate", "search", "search_record"} -> 1
      [] p \in {"immediate", "imm_record", "backlog_gate", "backlog",
                "backlog_record"} -> 2
      [] p \in {"followups", "status"} -> 3
      [] p \in {"inbox", "msg_gate", "msg", "msg_record"} -> 4
      [] p = "done" -> 5
      [] OTHER -> 0

\* The step hands the contact at the head of the queue to the browser.
AttemptStep ==
    /\ queue # <<>>
    /\ queue' = Tail(queue)
    /\ \/ pc = "immediate" /\ pc' \in {"immediate", "imm_record"}
       \/ pc = "backlog" /\ pc' \in {"backlog", "backlog_record"}
       \/ pc = "msg" /\ pc' \in {"msg", "msg_record"}

\* C25: within a run the stages execute in the order discovery, connect,
\* status poll, message, never going back, and no contact is handed to the
\* browser a second time in the same stage of the same run.
C25_StagesInOrderEachContactOnce ==
    [][/\ (pc # "done" /\ pc' # "idle") => StageOf(pc') >= StageOf(pc)
       /\ AttemptStep => Head(queue) \notin attempted]_vars

\* The fields a template body names in a placeholder of its own.
Referenced(body) ==
    {f \in DOMAIN FieldNames :
        Contains(body, LeftDelim \o Field(FieldNames[f]) \o RightDelim)}

\* RenderTemplate returned a text and no error.
RenderSucceeded == result.op = "RenderTemplate" /\ result.err = NilError

C27_CleanupIdempotentAndTidy ==
    result.op = "cleanupWhitespace" =>
        /\ cleanupWhitespace(result.text) = result.text
        /\ ~ Contains(result.text, <<" ", " ">>)
        /\ ~ Contains(result.text, <<"\n", "\n", "\n">>)
        /\ \A line \in Range(Split(result.text, <<"\n">>)) : TrimSpace(line) = line

\* What the template of the call executes to, before whitespace cleanup.
Executed == Rendered(tmplDef.Body, RenderDefaults(tmplVars))

\* C28: RenderTemplate fails with the empty-result error whenever the
\* rendered text is blank after trimming, and with the too-long error,
\* carrying the actual and the maximum length, whenever the cleaned text is
\* longer than the template's MaxLength; a text it returns is not blank and
\* is at most MaxLength long.
C28_EmptyAndTooLongRefused ==
    result.op = "RenderTemplate" =>
        /\ (Executed.err = "nil" /\ TrimSpace(Executed.text) = <<>>)
              => result.err = Errorf("rendered message is empty")
        /\ (Executed.err = "nil"
              /\ Len(cleanupWhitespace(Executed.text)) > tmplDef.MaxLength)
              => result.err = [msg |-> "rendered message exceeds maximum length",
                               actual |-> Len(cleanupWhitespace(Executed.text)),
                               max |-> tmplDef.MaxLength]
        /\ result.err = NilError
              => /\ TrimSpace(result.text) # <<>>
                 /\ Len(result.text) <= tmplDef.MaxLength

C28_BlankRenderRefused ==
    /\ result.op = "RenderTemplate"
    /\ Contains(tmplDef.Body, LeftDelim)
    /\ Executed.err = "nil"
    /\ Executed.text # <<>>
    /\ result.err = Errorf("rendered message is empty")

\* What the subject of the call executes to.
ExecutedSubject == Rendered(tmplDef.Body, SubjectDefaults(tmplVars))

\* C29: RenderSubject returns the raw subject when the subject does not
\* parse or execute, what it returns is never longer than SubjectMaxLength,
\* and an over-long rendering comes back as its first SubjectMaxLength - 3
\* characters followed by "...".
C29_SubjectWithinCeiling ==
    result.op = "RenderSubject" =>
        /\ ExecutedSubject.err # "nil" => result.text = tmplDef.Body
        /\ Len(result.text) <= SubjectMaxLength
        /\ (ExecutedSubject.err = "nil" /\ Len(ExecutedSubject.text) > SubjectMaxLength)
              => result.text = SubSeq(ExecutedSubject.text, 1, SubjectMaxLength - 3)
                               \o <<".", ".", ".">>

AlwaysActive == [StartHour |-> 0, EndHour |-> 23, WeekdaysOnly |-> FALSE]

\* C31: with StartHour 0, EndHour 23 and no weekday restriction the hours
\* are active at every time of every day.
C31_AlwaysActiveSchedule ==
    (sched.op = "IsActiveHours" /\ sched.config = AlwaysActive) => sched.active

\* C32: whatever ACTIVE_HOURS_START and ACTIVE_HOURS_END hold, the default
\* schedule has both hours in 0..23 and StartHour strictly before EndHour.
C32_DefaultScheduleOrdered ==
    sched.op # "none" =>
        /\ sched.config.StartHour \in 0..23
        /\ sched.config.EndHour \in 0..23
        /\ sched.config.StartHour < sched.config.EndHour

\* C33: outside active hours the next active time is not before the
\* current time and is itself active; from a weekend under WeekdaysOnly it
\* is a Monday at StartHour, from EndHour on it is a later day at
\* StartHour; the time until it is never negative and is 0 exactly when
\* the hours are active.
C33_NextActiveTimeIsActive ==
    /\ sched.op = "CalculateNextActiveTime" =>
          /\ sched.next >= wall
          /\ IsActiveHoursWithConfig(sched.next, sched.config)
          /\ (sched.config.WeekdaysOnly /\ Weekday(wall) \in {Saturday, Sunday})
                => /\ Weekday(sched.next) = 1
                   /\ sched.next = Date(DayOf(sched.next), sched.config.StartHour)
          /\ HourOf(wall) >= sched.config.EndHour
                => /\ DayOf(sched.next) > DayOf(wall)
                   /\ sched.next = Date(DayOf(sched.next), sched.config.StartHour)
    /\ sched.op = "GetTimeUntilNextActive" =>
          /\ sched.until >= 0
          /\ sched.until = 0 <=> sched.active

\* C34: for every message and every maxLength of 0 or more, TruncateMessage
\* returns a text no longer than maxLength: the message itself when it
\* fits, else its first maxLength - 3 characters followed by "...".
C34_TruncatedWithinMaxLength ==
    result.op = "TruncateMessage" =>
        /\ result.err = NilError
        /\ Len(result.text) <= tmplDef.MaxLength
        /\ Len(tmplDef.Body) <= tmplDef.MaxLength => result.text = tmplDef.Body
        /\ Len(tmplDef.Body) > tmplDef.MaxLength =>
              result.text = SubSeq(tmplDef.Body, 1, tmplDef.MaxLength - 3)
                            \o <<".", ".", ".">>

\* C35: when a run has logged in and saved the state, the next run, started
\* within 7 days, finds the saved session valid and does not log in again,
\* whatever state file there was before that login.
C35_SessionReusedWithinSevenDays ==
    [][(/\ session.pc = "idle" /\ session'.pc # "idle"
        /\ savedAt >= 0 /\ now - savedAt < SessionDays)
       => (session'.sessionValid /\ session'.pc = "feed")]_vars

\* C36: IsLinkedInCheckpoint is true of every URL that holds one of the
\* checkpoint patterns anywhere in it, and false of every other URL.
C36_CheckpointWhereverPatternOccurs ==
    probe.op = "checkpoint"
    => (probe.checkpoint <=> \E pattern \in CheckpointPatterns :
                                Contains(probe.url, pattern))

\* C39: the ProfileID the search stores for a link with "/in/" in it is the
\* key ExtractProfileID derives from the same link for the status and reply
\* updates.
C39_DiscoveredIdIsUpdateKey ==
    (probe.op = "met" /\ Contains(probe.url, <<"/", "i", "n", "/">>))
    => probe.key = probe.ProfileID

\* C37: a successful send is handed to RecordAction, which counts it in the
\* daily quota, only when its row has been written: the request row of the
\* contact for a connection request, the message row of the contact and the
\* template for a message.
C37_CountedOnlyAfterRowWritten ==
    /\ pc \in {"imm_record", "backlog_record"}
       => HasSentConnectionRequest(connection_requests, current)
    /\ pc = "msg_record" => HasSentMessage(messages, current, templateID)

\* The count of a kind on a date, as a read of that date's quota gives it.
CountOn(rl, d, k) == CountOf(GetTodayRateLimit(rl, d), k)

\* C38: an increment of one kind raises today's count of that kind by
\* exactly 1 and leaves today's counts of the other kinds and the counts of
\* every other date as they were; a read of today's quota, which may create
\* the day's row, changes no count of any date.
C38_IncrementTouchesOneCount ==
    [][now' = now =>
        \A k \in TaskTypes :
            /\ \A d \in (DOMAIN rate_limits \cup DOMAIN rate_limits') \ {now} :
                   CountOn(rate_limits', d, k) = CountOn(rate_limits, d, k)
            /\ CountOn(rate_limits', now, k) =
                   CountOn(rate_limits, now, k) + (recorded'[k] - recorded[k])
            /\ recorded'[k] - recorded[k] \in {0, 1}
            /\ recorded'[k] # recorded[k]
               => \A j \in TaskTypes \ {k} : recorded'[j] = recorded[j]
      ]_vars

\* On the second day a connection request has been counted after a read,
\* beside the first day's search and message.
C38_CountedBesideOtherKindsAndDates ==
    /\ now = 1
    /\ DOMAIN rate_limits = {0, 1}
    /\ rate_limits[0] = [connection_count |-> 0, message_count |-> 1, search_count |-> 1]
    /\ rate_limits[1] = [connection_count |-> 1, message_count |-> 0, search_count |-> 0]
    /\ \E c \in Callers : callers[c].ret = "nil" /\ callers[c].limit = ZeroCounts

\* C40: when every call of the Actuator and of the store returns, the
\* connection stage and the status check, each over its finite list, come
\* to their end, and every RecordAction call returns, having slept no
\* longer than the cooldown.
C40_StagesEndWaitsBounded ==
    /\ (pc \in {"backlog", "backlog_record", "backlog_cooldown"}) ~> (pc = "followups")
    /\ (pc = "status_loop") ~> (pc = "done")
    /\ (pc = "backlog_record") ~> (pc # "backlog_record")
    /\ [][pc = "backlog_record" /\ pc' # "backlog_record"
          => lastActionTime' - clock \in 0..Cooldown]_vars

\* Both stages have ended after three requests were sent, recorded and
\* paced, and a pending one was checked.
C40_ThreeSentPacedAndChecked ==
    /\ pc = "done"
    /\ ret = "polled"
    /\ stats.successful = 3
    /\ recorded[TaskConnection] >= 2
    /\ clock >= 2 * Cooldown
    /\ lastDone # <<>>

====
